---- MODULE Spec2Model ----
(***************************************************************************)
(* Model of the model-operator: the Model reconciler (phase state machine  *)
(* over Model, PersistentVolumeClaim and Job objects) and the pod          *)
(* admission mutator (ModelInjector).                                      *)
(*                                                                         *)
(* Go strings that the code inspects character by character (model names,  *)
(* annotation values, paths, derived names) are sequences of one-character *)
(* strings.  Enumerations (phases, reasons, error kinds) are TLA+ strings.  *)
(* A formatted message fmt.Sprintf(f, a...) is the record                  *)
(* [fmt |-> f, args |-> <<a...>>].                                          *)
(***************************************************************************)
EXTENDS Integers, Sequences, FiniteSets, TLC

VARIABLES
    models,     \* Model objects of the namespace: name -> [uid, generation, spec, status]
    pvcs,       \* PersistentVolumeClaims of the namespace: object name -> [owner]
    jobs,       \* Jobs of the namespace: object name -> [owner, status]
    nextUID,    \* next object UID the API server hands out to a Model
    now,        \* wall clock read by metav1.Now()
    res,        \* what the last step returned, when it was a reconcile pass
    resp        \* what the last step returned, when it was an admission request

vars == <<models, pvcs, jobs, nextUID, now, res, resp>>

----------------------------------------------------------------------------
(* Bounds of the model *)

\* most Model objects ever created (UIDs handed out)
MaxUID == 2
\* largest value of a Job status counter (succeeded, failed, active)
MaxCount == 1
\* largest metadata.generation a Model gets to by updates of its spec
MaxGeneration == 2
\* latest reading of the clock
MaxTime == 2

----------------------------------------------------------------------------
(* Model names of the namespace *)

N1 == <<"m", "1">>
N2 == <<"a", "-", "b">>
ModelNames == {N1, N2}

----------------------------------------------------------------------------
(* internal/resources/naming.go *)

PVCPrefix == <<"m", "o", "d", "e", "l", "-">>
JobPrefix == <<"m", "o", "d", "e", "l", "-", "d", "o", "w", "n", "l", "o", "a", "d", "-">>
VolumePrefix == <<"m", "o", "d", "e", "l", "-">>

\* PVCName leaving the Model name out: C34 does not hold of it
PVCName_Shared(modelName) == PVCPrefix \o <<"d", "a", "t", "a">>

PVCName(modelName) == PVCPrefix \o modelName
JobName(modelName) == JobPrefix \o modelName
VolumeName(modelName) == VolumePrefix \o modelName
DefaultMountPath(modelName) == <<"/", "m", "o", "d", "e", "l", "s", "/">> \o modelName

ToUpperChar(c) ==
    CASE c = "a" -> "A" [] c = "b" -> "B" [] c = "c" -> "C" [] c = "d" -> "D"
      [] c = "e" -> "E" [] c = "f" -> "F" [] c = "g" -> "G" [] c = "h" -> "H"
      [] c = "i" -> "I" [] c = "j" -> "J" [] c = "k" -> "K" [] c = "l" -> "L"
      [] c = "m" -> "M" [] c = "n" -> "N" [] c = "o" -> "O" [] c = "p" -> "P"
      [] c = "q" -> "Q" [] c = "r" -> "R" [] c = "s" -> "S" [] c = "t" -> "T"
      [] c = "u" -> "U" [] c = "v" -> "V" [] c = "w" -> "W" [] c = "x" -> "X"
      [] c = "y" -> "Y" [] c = "z" -> "Z" [] OTHER -> c

\* EnvVarPrefix replacing the first hyphen only (strings.Replace with n = 1):
\* C22 does not hold of it
EnvVarPrefix_FirstHyphen(modelName) ==
    LET upper  == [i \in 1..Len(modelName) |-> ToUpperChar(modelName[i])]
        hyphen == {i \in 1..Len(upper) : upper[i] = "-"}
        repl   == [i \in 1..Len(upper) |->
                     IF i \in hyphen /\ (\A j \in hyphen : i <= j) THEN "_" ELSE upper[i]]
    IN  <<"M", "O", "D", "E", "L", "_">> \o repl

\* EnvVarPrefix without the replacement of hyphens: C9 does not hold of it
EnvVarPrefix_KeepsHyphens(modelName) ==
    <<"M", "O", "D", "E", "L", "_">> \o [i \in 1..Len(modelName) |-> ToUpperChar(modelName[i])]

\* strings.ToUpper, then strings.ReplaceAll(name, "-", "_"), then "MODEL_" + name
EnvVarPrefix(modelName) ==
    LET upper == [i \in 1..Len(modelName) |-> ToUpperChar(modelName[i])]
        repl  == [i \in 1..Len(upper) |-> IF upper[i] = "-" THEN "_" ELSE upper[i]]
    IN  <<"M", "O", "D", "E", "L", "_">> \o repl

----------------------------------------------------------------------------
(* api/v1alpha1/model_types.go *)

ModelPhasePending == "Pending"
ModelPhaseDownloading == "Downloading"
ModelPhaseReady == "Ready"
ModelPhaseFailed == "Failed"

\* the pointer fields of ModelSource; a source is the set of the fields that are non-nil
SourceFields == {"huggingFace", "url", "s3", "git"}

\* the ModelSource values Models are created with: none, each single variant,
\* and two with more than one variant populated
SourceShapes ==
    { {}, {"huggingFace"}, {"s3"}, {"url"}, {"git"}, {"s3", "url"}, {"huggingFace", "git"} }

SingleSources == {{field} : field \in SourceFields}

\* ModelStatus of a Model that no pass has written yet
EmptyStatus ==
    [ phase |-> "", pvcName |-> <<>>, message |-> [fmt |-> "", args |-> <<>>],
      progress |-> 0, conditions |-> <<>>, observedGeneration |-> 0 ]

Sprintf(f, a) == [fmt |-> f, args |-> a]
Msg(s) == [fmt |-> s, args |-> <<>>]

----------------------------------------------------------------------------
(* controller: requeue intervals, in seconds *)

requeuePending == 10
requeueDownloading == 15
requeueReady == 300
requeueFailed == 60

conditionTypeReady == "Ready"

----------------------------------------------------------------------------
(* Objects and platform behaviour seen by the reconciler *)

\* metav1.OwnerReference set by controllerutil.SetControllerReference
OwnerRef(n, model) == [name |-> n, uid |-> model.uid]
\* an object created by somebody else carries no controller reference
NoOwner == [name |-> <<>>, uid |-> 0]

\* batchv1.JobStatus of a Job that has not started
NewJobStatus == [succeeded |-> 0, failed |-> 0, active |-> 0, conditions |-> <<>>]

\* batchv1.JobCondition lists the Job controller may publish
JobConditionLists ==
    { <<>>,
      << [type |-> "Failed", status |-> "True", message |-> "backoff limit reached"] >>,
      << [type |-> "Failed", status |-> "False", message |-> "not failed"] >>,
      << [type |-> "Complete", status |-> "True", message |-> "completed"] >> }

\* the counters of batchv1.JobStatus the reconciler reads
JobCounters == {"succeeded", "failed", "active"}

\* Faults the platform may answer a pass with.  Stale*: the cached read does
\* not show an object that exists, so the following Create is answered
\* AlreadyExists.  Get*: a read error other than NotFound.  Create*: the
\* creation is rejected (quota, admission).  Update: the status update is
\* rejected (conflict).
Faults ==
    {"GetModel", "GetPVC", "StalePVC", "CreatePVC", "GetJob", "StaleJob", "CreateJob", "Update"}
\* a pass is answered with no fault or with one
FaultSets == {{}} \cup {{x} : x \in Faults}

\* ctrl.Result{} with a nil error, and the bookkeeping of a pass: the request
\* key, whether the Model was found, the phase dispatched on, the status as
\* fetched, the error returned, RequeueAfter in seconds, whether the status was
\* written, the objects created and the faults the platform answered with
NoResult ==
    [ name |-> <<>>, found |-> FALSE, phase |-> "", status0 |-> EmptyStatus, err |-> "",
      requeue |-> 0, wrote |-> FALSE, created |-> {}, faults |-> {} ]

----------------------------------------------------------------------------
(* meta.SetStatusCondition, as called by updateStatusWithProgress *)

RECURSIVE FindStatusCondition(_, _, _)
FindStatusCondition(conditions, type, i) ==
    IF i > Len(conditions) THEN 0
    ELSE IF conditions[i].type = type THEN i
    ELSE FindStatusCondition(conditions, type, i + 1)

\* SetStatusCondition stamping the condition on every write: C29 does not hold
\* of it
SetStatusCondition_AlwaysStamps(conditions, newCondition) ==
    LET i == FindStatusCondition(conditions, newCondition.type, 1) IN
    IF i = 0 THEN Append(conditions, newCondition)
    ELSE [conditions EXCEPT ![i] = newCondition]

SetStatusCondition(conditions, newCondition) ==
    LET i == FindStatusCondition(conditions, newCondition.type, 1) IN
    IF i = 0 THEN Append(conditions, newCondition)
    ELSE LET old == conditions[i]
             ltt == IF old.status # newCondition.status
                    THEN newCondition.lastTransitionTime
                    ELSE old.lastTransitionTime
         IN  [conditions EXCEPT ![i] = [newCondition EXCEPT !.lastTransitionTime = ltt]]

----------------------------------------------------------------------------
(* controller: updateStatus / updateStatusWithProgress                      *)
(* A pass works on w = [models, pvcs, jobs] and returns the world it leaves *)
(* together with the pass result.                                           *)

\* RequeueFor without its Downloading case (the zero value is returned): C1
\* does not hold of it
RequeueFor_NoDownloading(phase) ==
    CASE phase = ModelPhasePending -> requeuePending
      [] phase = ModelPhaseReady -> requeueReady
      [] phase = ModelPhaseFailed -> requeueFailed
      [] OTHER -> 0

\* RequeueFor polling a Failed Model as slowly as a Ready one: C31 does not
\* hold of it
RequeueFor_FailedAsReady(phase) ==
    CASE phase = ModelPhasePending -> requeuePending
      [] phase = ModelPhaseDownloading -> requeueDownloading
      [] phase = ModelPhaseReady -> requeueReady
      [] phase = ModelPhaseFailed -> requeueReady
      [] OTHER -> 0

RequeueFor(phase) ==
    CASE phase = ModelPhasePending -> requeuePending
      [] phase = ModelPhaseDownloading -> requeueDownloading
      [] phase = ModelPhaseReady -> requeueReady
      [] phase = ModelPhaseFailed -> requeueFailed
      [] OTHER -> 0

\* the condition with the reason InProgress for every phase but Ready: C28 does
\* not hold of it
ReadyCondition_NoFailedReason(model, phase, message) ==
    [ type |-> conditionTypeReady,
      observedGeneration |-> model.generation,
      lastTransitionTime |-> now,
      status |-> IF phase = ModelPhaseReady THEN "True" ELSE "False",
      reason |-> CASE phase = ModelPhaseReady -> "DownloadComplete"
                   [] OTHER -> "InProgress",
      message |-> message ]

ReadyCondition(model, phase, message) ==
    [ type |-> conditionTypeReady,
      observedGeneration |-> model.generation,
      lastTransitionTime |-> now,
      status |-> IF phase = ModelPhaseReady THEN "True" ELSE "False",
      reason |-> CASE phase = ModelPhaseReady -> "DownloadComplete"
                   [] phase = ModelPhaseFailed -> "DownloadFailed"
                   [] OTHER -> "InProgress",
      message |-> message ]

\* updateStatusWithProgress leaving status.observedGeneration as it was: C30
\* does not hold of it
updateStatusWithProgress_KeepsGeneration(w, r, n, model, phase, message, progress, f) ==
    LET status == [ model.status EXCEPT
                      !.phase = phase,
                      !.message = message,
                      !.progress = progress,
                      !.pvcName = PVCName(n),
                      !.conditions = SetStatusCondition(@, ReadyCondition(model, phase, message)) ]
    IN  IF "Update" \in f
        THEN [w |-> w, r |-> [r EXCEPT !.err = "UpdateStatus"]]
        ELSE [ w |-> [w EXCEPT !.models[n].status = status],
               r |-> [r EXCEPT !.wrote = TRUE, !.requeue = RequeueFor(phase)] ]

updateStatusWithProgress(w, r, n, model, phase, message, progress, f) ==
    LET status == [ model.status EXCEPT
                      !.phase = phase,
                      !.message = message,
                      !.progress = progress,
                      !.pvcName = PVCName(n),
                      !.observedGeneration = model.generation,
                      !.conditions = SetStatusCondition(@, ReadyCondition(model, phase, message)) ]
    IN  IF "Update" \in f
        THEN [w |-> w, r |-> [r EXCEPT !.err = "UpdateStatus"]]
        ELSE [ w |-> [w EXCEPT !.models[n].status = status],
               r |-> [r EXCEPT !.wrote = TRUE, !.requeue = RequeueFor(phase)] ]

\* updateStatus writing the progress anew with every phase: C39 does not hold
\* of it
updateStatus_ResetsProgress(w, r, n, model, phase, message, f) ==
    updateStatusWithProgress(w, r, n, model, phase, message, 0, f)

updateStatus(w, r, n, model, phase, message, f) ==
    updateStatusWithProgress(w, r, n, model, phase, message, model.status.progress, f)

----------------------------------------------------------------------------
(* internal/resources: BuildPVC, BuildDownloadJob *)

\* the descriptor of the storage claim of a Model, owner reference included
BuildPVC(n, model) ==
    [ name |-> PVCName(n), owner |-> OwnerRef(n, model) ]

\* literal values of the source fields of every Model of the model
RepoID == <<"o", "/", "r">>
Bucket == <<"b", "k", "t">>
Key == <<"k", "/", "f">>
SourceURL == <<"h", "t", "t", "p", ":", "/", "/", "u">>
GitURL == <<"g", "i", "t", ":", "r">>
\* values of the optional fields: HuggingFace.Revision, Git.Ref, Git.Include
Revisions == {<<>>, <<"v", "1">>}
Refs == {<<>>, <<"v", "2">>}
Includes == {<<>>, << <<"*", ".", "s">> >>}

\* the optional fields a Model is created with
NoDetails == [revision |-> <<>>, ref |-> <<>>, include |-> <<>>]

SpecDetails == [revision : Revisions, ref : Refs, include : Includes]

\* strconv of a natural number, as %d prints it
RECURSIVE Decimal(_)
Decimal(i) ==
    LET digit == <<"0", "1", "2", "3", "4", "5", "6", "7", "8", "9">>[(i % 10) + 1]
    IN  IF i < 10 THEN <<digit>> ELSE Decimal(i \div 10) \o <<digit>>

\* strings.Join
RECURSIVE Join(_, _)
Join(parts, sep) ==
    IF parts = <<>> THEN <<>>
    ELSE IF Len(parts) = 1 THEN parts[1]
    ELSE parts[1] \o sep \o Join(Tail(parts), sep)

\* A script is the string fmt.Sprintf returns: the text of the format is kept
\* in pieces, one element per piece, and every interpolated value is there
\* character by character. Models have no Modelfile section, no credentials
\* secret, and the optional fields other than revision, ref and include unset.
buildModelfileContent(model) ==
    LET source == model.spec.source
        hfPath == IF "huggingFace" \in source
                  THEN <<"huggingface.co/">> \o RepoID
                  ELSE <<>>
        fromPath == <<"/models">>
        comment ==
            IF hfPath # <<>>
            THEN << <<"# HUGGINGFACE_PATH ">> \o hfPath >>
            ELSE IF "git" \in source
            THEN << <<"# GIT_URL ">> \o GitURL >>
                 \o (IF model.spec.ref # <<>>
                     THEN << <<"# GIT_REF ">> \o model.spec.ref >>
                     ELSE <<>>)
            ELSE IF "url" \in source
            THEN << <<"# SOURCE_URL ">> \o SourceURL >>
            ELSE IF "s3" \in source
            THEN << <<"# S3_PATH s3://">> \o Bucket \o <<"/">> \o Key >>
            ELSE <<>>
    IN  Join(comment \o << <<"FROM ">> \o fromPath >>, <<"\n">>)

buildHuggingFaceContainer(model) ==
    LET revision == IF model.spec.revision = <<>> THEN <<"main">> ELSE model.spec.revision
        kwargs == << <<"'">> \o RepoID \o <<"'">>,
                     <<"revision='">> \o revision \o <<"'">>,
                     <<"local_dir='/models'">> >>
        downloadCmd == <<"from huggingface_hub import snapshot_download; snapshot_download(">>
                       \o Join(kwargs, <<", ">>) \o <<")">>
        script == <<"pip install -q huggingface_hub hf_transfer && \\\nexport HF_HUB_ENABLE_HF_TRANSFER=1 && \\\npython -c \"">>
                  \o downloadCmd
                  \o <<"\" && \\\ncat > /models/Modelfile << 'MODELFILE_EOF'\n">>
                  \o buildModelfileContent(model)
                  \o <<"\nMODELFILE_EOF\necho \"Download complete\" && \\\nls -la /models">>
    IN  [name |-> "downloader", command |-> <<"sh", "-c">>, args |-> <<script>>]

buildS3Container(model) ==
    LET endpointArg == <<>>
        regionArg == <<>>
        script == <<"aws s3 cp ">> \o endpointArg \o <<" ">> \o regionArg \o <<" s3://">>
                  \o Bucket \o <<"/">> \o Key
                  \o <<" /models/ --recursive && \\\necho \"Download complete\" && \\\nls -la /models">>
    IN  [name |-> "downloader", command |-> <<"sh", "-c">>, args |-> <<script>>]

\* buildURLContainer handing the URL over in a variable of the container: C25
\* does not hold of it
buildURLContainer_FromEnv(model) ==
    LET script == <<"curl -L -o /models/model \"$SOURCE_URL\" && \\\necho \"Download complete\" && \\\nls -la /models">>
    IN  [name |-> "downloader", command |-> <<"sh", "-c">>, args |-> <<script>>]

buildURLContainer(model) ==
    LET script == <<"curl -L -o /models/model \"">> \o SourceURL
                  \o <<"\" && \\\necho \"Download complete\" && \\\nls -la /models">>
    IN  [name |-> "downloader", command |-> <<"sh", "-c">>, args |-> <<script>>]

\* the sparse-checkout lines of buildGitContainer, one per include pattern
RECURSIVE SparsePatterns(_)
SparsePatterns(include) ==
    IF include = <<>> THEN <<>>
    ELSE <<"echo '">> \o include[1] \o <<"' >> .git/info/sparse-checkout && \\\n">>
         \o SparsePatterns(Tail(include))

buildGitContainer(model) ==
    LET ref == IF model.spec.ref = <<>> THEN <<"main">> ELSE model.spec.ref
        lfsEnabled == TRUE
        depth == 1
        depthArg == IF depth > 0 THEN <<"--depth ">> \o Decimal(depth) ELSE <<>>
        lfsCommands == IF lfsEnabled
                       THEN <<"apk add --no-cache git-lfs && \\\ngit lfs install && \\\n">>
                       ELSE <<>>
        clone ==
            IF Len(model.spec.include) > 0
            THEN lfsCommands \o <<"git clone --no-checkout ">> \o depthArg \o <<" --branch ">>
                 \o ref \o <<" ">> \o GitURL
                 \o <<" /tmp/repo && \\\ncd /tmp/repo && \\\ngit sparse-checkout init --no-cone && \\\n">>
                 \o SparsePatterns(model.spec.include)
                 \o <<"git checkout ">> \o ref \o <<" && \\\n">>
                 \o (IF lfsEnabled THEN <<"git lfs pull && \\\n">> ELSE <<>>)
                 \o <<"cd / && \\\nmv /tmp/repo/* /models/ 2>/dev/null || true && \\\nmv /tmp/repo/.* /models/ 2>/dev/null || true && \\\nrm -rf /tmp/repo && \\\n">>
            ELSE lfsCommands \o <<"git clone ">> \o depthArg \o <<" --branch ">>
                 \o ref \o <<" ">> \o GitURL
                 \o <<" /tmp/repo && \\\nmv /tmp/repo/* /models/ && \\\nrm -rf /tmp/repo && \\\n">>
        script == clone
                  \o <<"cat > /models/Modelfile << 'MODELFILE_EOF'\n">>
                  \o buildModelfileContent(model)
                  \o <<"\nMODELFILE_EOF\necho \"Clone complete\" && \\\nls -la /models">>
    IN  [name |-> "downloader", command |-> <<"sh", "-c">>, args |-> <<script>>]

\* the switch of BuildDownloadJob: the first non-nil source field decides the
\* container, no field at all is the build error
BuildDownloadJob(n, model) ==
    LET source == model.spec.source
        kind == CASE "huggingFace" \in source -> "huggingFace"
                  [] "s3" \in source -> "s3"
                  [] "url" \in source -> "url"
                  [] "git" \in source -> "git"
                  [] OTHER -> ""
        container == CASE kind = "huggingFace" -> buildHuggingFaceContainer(model)
                       [] kind = "s3" -> buildS3Container(model)
                       [] kind = "url" -> buildURLContainer(model)
                       [] kind = "git" -> buildGitContainer(model)
                       [] OTHER -> [name |-> "", command |-> <<>>, args |-> <<>>]
    IN  IF kind = ""
        THEN [ err |-> Sprintf("no source specified in model %s", <<n>>) ]
        ELSE [ err |-> Msg(""),
               job |-> [ name |-> JobName(n), owner |-> OwnerRef(n, model),
                         container |-> kind, claimName |-> PVCName(n),
                         command |-> container.command, args |-> container.args,
                         status |-> NewJobStatus ] ]

----------------------------------------------------------------------------
(* controller: the phase handlers *)

\* lines 132-162 of reconcilePending: build, look up and create the Job
reconcilePendingJob(w, r, n, model, f) ==
    LET built == BuildDownloadJob(n, model)
        name  == JobName(n)
        seen  == name \in DOMAIN w.jobs /\ "StaleJob" \notin f
        createErr == IF "CreateJob" \in f THEN "Forbidden"
                     ELSE IF name \in DOMAIN w.jobs THEN "AlreadyExists"
                     ELSE ""
    IN  IF built.err.fmt # ""
        THEN updateStatus(w, r, n, model, ModelPhaseFailed,
                          Sprintf("Failed to build download Job: %v", <<built.err>>), f)
        ELSE IF "GetJob" \in f
        THEN [w |-> w, r |-> [r EXCEPT !.err = "GetJob"]]
        ELSE IF seen
        THEN updateStatus(w, r, n, model, ModelPhaseDownloading, Msg("Download started"), f)
        ELSE IF createErr # ""
        THEN updateStatus(w, r, n, model, ModelPhasePending,
                          Sprintf("Failed to create Job: %v", <<createErr>>), f)
        ELSE updateStatus([w EXCEPT !.jobs = (name :> [owner |-> built.job.owner,
                                                       container |-> built.job.container,
                                                       claimName |-> built.job.claimName,
                                                       command |-> built.job.command,
                                                       args |-> built.job.args,
                                                       status |-> built.job.status]) @@ @],
                          [r EXCEPT !.created = @ \cup {"job"}],
                          n, model, ModelPhaseDownloading, Msg("Download started"), f)

\* reconcilePending giving the Model up when the claim's creation is rejected:
\* C17 does not hold of it
reconcilePending_FailsOnReject(w, r, n, model, f) ==
    LET pvc  == BuildPVC(n, model)
        seen == pvc.name \in DOMAIN w.pvcs /\ "StalePVC" \notin f
        createErr == IF "CreatePVC" \in f THEN "Forbidden"
                     ELSE IF pvc.name \in DOMAIN w.pvcs THEN "AlreadyExists"
                     ELSE ""
    IN  IF "GetPVC" \in f
        THEN [w |-> w, r |-> [r EXCEPT !.err = "GetPVC"]]
        ELSE IF seen
        THEN reconcilePendingJob(w, r, n, model, f)
        ELSE IF createErr # ""
        THEN updateStatus(w, r, n, model, ModelPhaseFailed,
                          Sprintf("Failed to create PVC: %v", <<createErr>>), f)
        ELSE reconcilePendingJob([w EXCEPT !.pvcs = (pvc.name :> [owner |-> pvc.owner]) @@ @],
                                 [r EXCEPT !.created = @ \cup {"pvc"}],
                                 n, model, f)

reconcilePending(w, r, n, model, f) ==
    LET pvc  == BuildPVC(n, model)
        seen == pvc.name \in DOMAIN w.pvcs /\ "StalePVC" \notin f
        createErr == IF "CreatePVC" \in f THEN "Forbidden"
                     ELSE IF pvc.name \in DOMAIN w.pvcs THEN "AlreadyExists"
                     ELSE ""
    IN  IF "GetPVC" \in f
        THEN [w |-> w, r |-> [r EXCEPT !.err = "GetPVC"]]
        ELSE IF seen
        THEN reconcilePendingJob(w, r, n, model, f)
        ELSE IF createErr # ""
        THEN updateStatus(w, r, n, model, ModelPhasePending,
                          Sprintf("Failed to create PVC: %v", <<createErr>>), f)
        ELSE reconcilePendingJob([w EXCEPT !.pvcs = (pvc.name :> [owner |-> pvc.owner]) @@ @],
                                 [r EXCEPT !.created = @ \cup {"pvc"}],
                                 n, model, f)

\* a success test that takes a count of 0 for success: C18 does not hold of it
JobSucceeded_FromZero(job) == job.status.succeeded >= 0

\* a success test that gives way to a failure count: C3 does not hold of it
JobSucceeded_UnlessFailed(job) == job.status.succeeded > 0 /\ job.status.failed = 0

\* the success test of reconcileDownloading
JobSucceeded(job) == job.status.succeeded > 0

\* the first condition of type Failed with status True, 0 when there is none
RECURSIVE FailedCondition(_, _)
FailedCondition(conditions, i) ==
    IF i > Len(conditions) THEN 0
    ELSE IF conditions[i].type = "Failed" /\ conditions[i].status = "True" THEN i
    ELSE FailedCondition(conditions, i + 1)

\* the failure test of reconcileDownloading: the index of the condition whose
\* message is reported, 0 when the Job does not count as failed
JobFailed(job) ==
    IF job.status.failed > 0 THEN FailedCondition(job.status.conditions, 1) ELSE 0

\* reconcileDownloading giving the Model up when its Job is gone: C26 does not
\* hold of it
reconcileDownloading_MissingJobFails(w, r, n, model, f) ==
    LET jobName == JobName(n)
        seen    == jobName \in DOMAIN w.jobs /\ "StaleJob" \notin f
        job     == w.jobs[jobName]
        fc      == JobFailed(job)
        message == IF job.status.active > 0
                   THEN Sprintf("Download in progress (active pods: %d)", <<job.status.active>>)
                   ELSE Msg("Download in progress")
        status  == [ model.status EXCEPT !.pvcName = PVCName(n), !.message = message,
                                         !.observedGeneration = model.generation ]
    IN  IF "GetJob" \in f
        THEN [w |-> w, r |-> [r EXCEPT !.err = "GetJob"]]
        ELSE IF ~seen
        THEN updateStatus(w, r, n, model, ModelPhaseFailed, Msg("Job not found"), f)
        ELSE IF JobSucceeded(job)
        THEN updateStatusWithProgress(w, r, n, model, ModelPhaseReady,
                                      Msg("Download complete"), 100, f)
        ELSE IF fc # 0
        THEN updateStatus(w, r, n, model, ModelPhaseFailed,
                          Sprintf("Download failed: %s", <<job.status.conditions[fc].message>>), f)
        ELSE IF model.status.pvcName = <<>>
        THEN IF "Update" \in f
             THEN [w |-> w, r |-> [r EXCEPT !.err = "UpdateStatus"]]
             ELSE [ w |-> [w EXCEPT !.models[n].status = status],
                    r |-> [r EXCEPT !.wrote = TRUE, !.requeue = requeueDownloading] ]
        ELSE [w |-> w, r |-> [r EXCEPT !.requeue = requeueDownloading]]

reconcileDownloading(w, r, n, model, f) ==
    LET jobName == JobName(n)
        seen    == jobName \in DOMAIN w.jobs /\ "StaleJob" \notin f
        job     == w.jobs[jobName]
        fc      == JobFailed(job)
        message == IF job.status.active > 0
                   THEN Sprintf("Download in progress (active pods: %d)", <<job.status.active>>)
                   ELSE Msg("Download in progress")
        status  == [ model.status EXCEPT !.pvcName = PVCName(n), !.message = message,
                                         !.observedGeneration = model.generation ]
    IN  IF "GetJob" \in f
        THEN [w |-> w, r |-> [r EXCEPT !.err = "GetJob"]]
        ELSE IF ~seen
        THEN updateStatus(w, r, n, model, ModelPhasePending, Msg("Job not found, recreating"), f)
        ELSE IF JobSucceeded(job)
        THEN updateStatusWithProgress(w, r, n, model, ModelPhaseReady,
                                      Msg("Download complete"), 100, f)
        ELSE IF fc # 0
        THEN updateStatus(w, r, n, model, ModelPhaseFailed,
                          Sprintf("Download failed: %s", <<job.status.conditions[fc].message>>), f)
        ELSE IF model.status.pvcName = <<>>
        THEN IF "Update" \in f
             THEN [w |-> w, r |-> [r EXCEPT !.err = "UpdateStatus"]]
             ELSE [ w |-> [w EXCEPT !.models[n].status = status],
                    r |-> [r EXCEPT !.wrote = TRUE, !.requeue = requeueDownloading] ]
        ELSE [w |-> w, r |-> [r EXCEPT !.requeue = requeueDownloading]]

\* reconcileReady looking up the Job instead of the claim: C5 does not hold of it
reconcileReady_ChecksJob(w, r, n, model, f) ==
    LET jobName == JobName(n)
        seen    == jobName \in DOMAIN w.jobs /\ "StalePVC" \notin f
    IN  IF "GetPVC" \in f
        THEN [w |-> w, r |-> [r EXCEPT !.err = "GetPVC"]]
        ELSE IF ~seen
        THEN updateStatus(w, r, n, model, ModelPhasePending, Msg("PVC was deleted, recreating"), f)
        ELSE [w |-> w, r |-> [r EXCEPT !.requeue = requeueReady]]

\* reconcileReady clearing the old Job away when the claim is gone, so that the
\* download runs again: C36 does not hold of it
reconcileReady_ClearsJob(w, r, n, model, f) ==
    LET pvcName == PVCName(n)
        seen    == pvcName \in DOMAIN w.pvcs /\ "StalePVC" \notin f
    IN  IF "GetPVC" \in f
        THEN [w |-> w, r |-> [r EXCEPT !.err = "GetPVC"]]
        ELSE IF ~seen
        THEN updateStatus([w EXCEPT !.jobs = [k \in DOMAIN w.jobs \ {JobName(n)} |-> w.jobs[k]]],
                          r, n, model, ModelPhasePending, Msg("PVC was deleted, recreating"), f)
        ELSE [w |-> w, r |-> [r EXCEPT !.requeue = requeueReady]]

\* reconcileReady starting over when the spec is newer than the status: C33
\* does not hold of it
reconcileReady_FollowsGeneration(w, r, n, model, f) ==
    LET pvcName == PVCName(n)
        seen    == pvcName \in DOMAIN w.pvcs /\ "StalePVC" \notin f
    IN  IF "GetPVC" \in f
        THEN [w |-> w, r |-> [r EXCEPT !.err = "GetPVC"]]
        ELSE IF ~seen
        THEN updateStatus(w, r, n, model, ModelPhasePending, Msg("PVC was deleted, recreating"), f)
        ELSE IF model.status.observedGeneration # model.generation
        THEN updateStatus(w, r, n, model, ModelPhasePending, Msg("Spec changed"), f)
        ELSE [w |-> w, r |-> [r EXCEPT !.requeue = requeueReady]]

\* reconcileReady taking every failed read of the claim for NotFound: C32 does
\* not hold of it
reconcileReady_AnyErrorIsNotFound(w, r, n, model, f) ==
    LET pvcName == PVCName(n)
        seen    == pvcName \in DOMAIN w.pvcs /\ "StalePVC" \notin f /\ "GetPVC" \notin f
    IN  IF ~seen
        THEN updateStatus(w, r, n, model, ModelPhasePending, Msg("PVC was deleted, recreating"), f)
        ELSE [w |-> w, r |-> [r EXCEPT !.requeue = requeueReady]]

\* reconcileReady giving the Model up when its claim is gone: C35 does not hold
\* of it
reconcileReady_MissingClaimFails(w, r, n, model, f) ==
    LET pvcName == PVCName(n)
        seen    == pvcName \in DOMAIN w.pvcs /\ "StalePVC" \notin f
    IN  IF "GetPVC" \in f
        THEN [w |-> w, r |-> [r EXCEPT !.err = "GetPVC"]]
        ELSE IF ~seen
        THEN updateStatus(w, r, n, model, ModelPhaseFailed, Msg("PVC was deleted"), f)
        ELSE [w |-> w, r |-> [r EXCEPT !.requeue = requeueReady]]

reconcileReady(w, r, n, model, f) ==
    LET pvcName == PVCName(n)
        seen    == pvcName \in DOMAIN w.pvcs /\ "StalePVC" \notin f
    IN  IF "GetPVC" \in f
        THEN [w |-> w, r |-> [r EXCEPT !.err = "GetPVC"]]
        ELSE IF ~seen
        THEN updateStatus(w, r, n, model, ModelPhasePending, Msg("PVC was deleted, recreating"), f)
        ELSE [w |-> w, r |-> [r EXCEPT !.requeue = requeueReady]]

\* reconcileFailed leaving a Failed Model alone: C37 does not hold of it
reconcileFailed_StaysFailed(w, r, n, model, f) ==
    IF "GetJob" \in f
    THEN [w |-> w, r |-> [r EXCEPT !.err = "GetJob"]]
    ELSE [w |-> w, r |-> [r EXCEPT !.requeue = requeueFailed]]

\* reconcileFailed clearing the failed Job away to make room for a retry: C21
\* does not hold of it
reconcileFailed_DeletesJob(w, r, n, model, f) ==
    LET jobName == JobName(n)
        seen    == jobName \in DOMAIN w.jobs /\ "StaleJob" \notin f
    IN  IF "GetJob" \in f
        THEN [w |-> w, r |-> [r EXCEPT !.err = "GetJob"]]
        ELSE IF ~seen
        THEN updateStatus(w, r, n, model, ModelPhasePending, Msg("Retrying download"), f)
        ELSE [w |-> [w EXCEPT !.jobs = [k \in DOMAIN w.jobs \ {jobName} |-> w.jobs[k]]],
              r |-> [r EXCEPT !.requeue = requeueFailed]]

\* reconcileFailed looking up the claim instead of the Job: C6 does not hold of it
reconcileFailed_ChecksPVC(w, r, n, model, f) ==
    LET pvcName == PVCName(n)
        seen    == pvcName \in DOMAIN w.pvcs /\ "StaleJob" \notin f
    IN  IF "GetJob" \in f
        THEN [w |-> w, r |-> [r EXCEPT !.err = "GetJob"]]
        ELSE IF ~seen
        THEN updateStatus(w, r, n, model, ModelPhasePending, Msg("Retrying download"), f)
        ELSE [w |-> w, r |-> [r EXCEPT !.requeue = requeueFailed]]

reconcileFailed(w, r, n, model, f) ==
    LET jobName == JobName(n)
        seen    == jobName \in DOMAIN w.jobs /\ "StaleJob" \notin f
    IN  IF "GetJob" \in f
        THEN [w |-> w, r |-> [r EXCEPT !.err = "GetJob"]]
        ELSE IF ~seen
        THEN updateStatus(w, r, n, model, ModelPhasePending, Msg("Retrying download"), f)
        ELSE [w |-> w, r |-> [r EXCEPT !.requeue = requeueFailed]]

\* Reconcile returning the NotFound of the fetch instead of ignoring it: C16
\* does not hold of it
Reconcile_NotFoundIsError(w, n, f) ==
    LET r0    == [NoResult EXCEPT !.name = n, !.faults = f]
        model == w.models[n]
        phase == IF model.status.phase = "" THEN ModelPhasePending ELSE model.status.phase
        r     == [r0 EXCEPT !.found = TRUE, !.phase = phase, !.status0 = model.status]
    IN  IF "GetModel" \in f
        THEN [w |-> w, r |-> [r0 EXCEPT !.err = "GetModel"]]
        ELSE IF n \notin DOMAIN w.models
        THEN [w |-> w, r |-> [r0 EXCEPT !.err = "NotFound"]]
        ELSE CASE phase = ModelPhasePending -> reconcilePending(w, r, n, model, f)
               [] phase = ModelPhaseDownloading -> reconcileDownloading(w, r, n, model, f)
               [] phase = ModelPhaseReady -> reconcileReady(w, r, n, model, f)
               [] phase = ModelPhaseFailed -> reconcileFailed(w, r, n, model, f)
               [] OTHER -> updateStatus(w, r, n, model, ModelPhasePending,
                                        Msg("Unknown phase, resetting"), f)

\* Reconcile: fetch the Model, default the phase, dispatch on it
Reconcile(w, n, f) ==
    LET r0    == [NoResult EXCEPT !.name = n, !.faults = f]
        model == w.models[n]
        phase == IF model.status.phase = "" THEN ModelPhasePending ELSE model.status.phase
        r     == [r0 EXCEPT !.found = TRUE, !.phase = phase, !.status0 = model.status]
    IN  IF "GetModel" \in f
        THEN [w |-> w, r |-> [r0 EXCEPT !.err = "GetModel"]]
        ELSE IF n \notin DOMAIN w.models
        THEN [w |-> w, r |-> r0]
        ELSE CASE phase = ModelPhasePending -> reconcilePending(w, r, n, model, f)
               [] phase = ModelPhaseDownloading -> reconcileDownloading(w, r, n, model, f)
               [] phase = ModelPhaseReady -> reconcileReady(w, r, n, model, f)
               [] phase = ModelPhaseFailed -> reconcileFailed(w, r, n, model, f)
               [] OTHER -> updateStatus(w, r, n, model, ModelPhasePending,
                                        Msg("Unknown phase, resetting"), f)

----------------------------------------------------------------------------
(* Go's strings package on character sequences *)

HasSuffix(s, suffix) ==
    /\ Len(suffix) <= Len(s)
    /\ SubSeq(s, Len(s) - Len(suffix) + 1, Len(s)) = suffix

TrimSuffix(s, suffix) ==
    IF HasSuffix(s, suffix) THEN SubSeq(s, 1, Len(s) - Len(suffix)) ELSE s

HasPrefixAt(s, i, sub) ==
    /\ i + Len(sub) - 1 <= Len(s)
    /\ SubSeq(s, i, i + Len(sub) - 1) = sub

Contains(s, sub) == \E i \in 1..(Len(s) + 1) : HasPrefixAt(s, i, sub)

\* strings.ReplaceAll for a non-empty old: non-overlapping matches, left to right
RECURSIVE ReplaceFrom(_, _, _, _)
ReplaceFrom(s, i, old, new) ==
    IF i > Len(s) THEN <<>>
    ELSE IF HasPrefixAt(s, i, old) THEN new \o ReplaceFrom(s, i + Len(old), old, new)
    ELSE <<s[i]>> \o ReplaceFrom(s, i + 1, old, new)

ReplaceAll(s, old, new) == ReplaceFrom(s, 1, old, new)

\* strings.Split(s, sep) for a one-character sep: the fields between the separators
RECURSIVE SplitFrom(_, _, _, _)
SplitFrom(s, i, sep, field) ==
    IF i > Len(s) THEN <<field>>
    ELSE IF s[i] = sep THEN <<field>> \o SplitFrom(s, i + 1, sep, <<>>)
    ELSE SplitFrom(s, i + 1, sep, Append(field, s[i]))

Split(s, sep) == SplitFrom(s, 1, sep, <<>>)

IsSpace(c) == c \in {" ", "\t", "\n", "\r"}

RECURSIVE TrimLeft(_)
TrimLeft(s) == IF s # <<>> /\ IsSpace(Head(s)) THEN TrimLeft(Tail(s)) ELSE s

RECURSIVE TrimRight(_)
TrimRight(s) ==
    IF s # <<>> /\ IsSpace(s[Len(s)]) THEN TrimRight(SubSeq(s, 1, Len(s) - 1)) ELSE s

TrimSpace(s) == TrimRight(TrimLeft(s))

----------------------------------------------------------------------------
(* webhook: annotation keys, options *)

AnnotationInject == "models.main-currents.news/inject"
AnnotationMountPath == "models.main-currents.news/mount-path"
AnnotationReadOnly == "models.main-currents.news/read-only"
AnnotationContainer == "models.main-currents.news/container"
AnnotationInjectEnv == "models.main-currents.news/inject-env"
LabelInjected == "models.main-currents.news/injected"

StrFalse == <<"f", "a", "l", "s", "e">>
StrTrue == <<"t", "r", "u", "e">>
NamePlaceholder == <<"{", "n", "a", "m", "e", "}">>

\* parseOptions switching a toggle on only for the value "true": C24 does not
\* hold of it
parseOptions_OnlyTrueEnables(annotations) ==
    [ MountPath |-> IF AnnotationMountPath \in DOMAIN annotations
                    THEN annotations[AnnotationMountPath] ELSE <<>>,
      ReadOnly |-> IF AnnotationReadOnly \in DOMAIN annotations
                   THEN annotations[AnnotationReadOnly] = StrTrue ELSE TRUE,
      ContainerName |-> IF AnnotationContainer \in DOMAIN annotations
                        THEN annotations[AnnotationContainer] ELSE <<>>,
      InjectEnv |-> IF AnnotationInjectEnv \in DOMAIN annotations
                    THEN annotations[AnnotationInjectEnv] = StrTrue ELSE TRUE ]

parseOptions(annotations) ==
    [ MountPath |-> IF AnnotationMountPath \in DOMAIN annotations
                    THEN annotations[AnnotationMountPath] ELSE <<>>,
      ReadOnly |-> IF AnnotationReadOnly \in DOMAIN annotations
                   THEN annotations[AnnotationReadOnly] # StrFalse ELSE TRUE,
      ContainerName |-> IF AnnotationContainer \in DOMAIN annotations
                        THEN annotations[AnnotationContainer] ELSE <<>>,
      InjectEnv |-> IF AnnotationInjectEnv \in DOMAIN annotations
                    THEN annotations[AnnotationInjectEnv] # StrFalse ELSE TRUE ]

----------------------------------------------------------------------------
(* webhook: injectVolume, injectVolumeMount, injectEnvVars                  *)
(* pod = [labels, annotations, volumes, containers]; a container is         *)
(* [name, volumeMounts, env]                                                 *)

\* injectVolume without its look for a volume of that name: C13 does not hold
\* of it
injectVolume_Always(pod, name) ==
    [pod EXCEPT !.volumes =
        Append(@, [name |-> VolumeName(name), claimName |-> PVCName(name), readOnly |-> TRUE])]

injectVolume(pod, name) ==
    IF \E i \in 1..Len(pod.volumes) : pod.volumes[i].name = VolumeName(name)
    THEN pod
    ELSE [pod EXCEPT !.volumes =
            Append(@, [name |-> VolumeName(name), claimName |-> PVCName(name), readOnly |-> TRUE])]

\* the mount path joined without trimming the override's trailing slash: C23
\* does not hold of it
ResolveMountPath_NoTrim(opts, name) ==
    IF opts.MountPath = <<>> THEN DefaultMountPath(name)
    ELSE IF Contains(opts.MountPath, NamePlaceholder)
    THEN ReplaceAll(opts.MountPath, NamePlaceholder, name)
    ELSE IF ~HasSuffix(opts.MountPath, name)
    THEN opts.MountPath \o <<"/">> \o name
    ELSE opts.MountPath

\* the mount path computed by injectVolumeMount and again by injectEnvVars
ResolveMountPath(opts, name) ==
    IF opts.MountPath = <<>> THEN DefaultMountPath(name)
    ELSE IF Contains(opts.MountPath, NamePlaceholder)
    THEN ReplaceAll(opts.MountPath, NamePlaceholder, name)
    ELSE IF ~HasSuffix(opts.MountPath, name)
    THEN TrimSuffix(opts.MountPath, <<"/">>) \o <<"/">> \o name
    ELSE opts.MountPath

\* the index of the first container of that name, 0 when there is none
RECURSIVE FindContainer(_, _, _)
FindContainer(containers, name, i) ==
    IF i > Len(containers) THEN 0
    ELSE IF containers[i].name = name THEN i
    ELSE FindContainer(containers, name, i + 1)

\* injectVolumeMount taking the first container when the named one is not
\* there: C12 does not hold of it
injectVolumeMount_FallsBack(pod, name, opts) ==
    LET mount == [ name |-> VolumeName(name), mountPath |-> ResolveMountPath(opts, name),
                   readOnly |-> opts.ReadOnly ]
        found == FindContainer(pod.containers, opts.ContainerName, 1)
        containerIdx == IF opts.ContainerName # <<>> /\ found # 0 THEN found ELSE 1
    IN  IF Len(pod.containers) = 0
        THEN [err |-> Msg("pod has no containers"), pod |-> pod]
        ELSE IF \E i \in 1..Len(pod.containers[containerIdx].volumeMounts) :
                    pod.containers[containerIdx].volumeMounts[i].name = VolumeName(name)
        THEN [err |-> Msg(""), pod |-> pod]
        ELSE [err |-> Msg(""),
              pod |-> [pod EXCEPT !.containers[containerIdx].volumeMounts = Append(@, mount)]]

\* indices are Go's plus one: Go's container 0 is containers[1]
injectVolumeMount(pod, name, opts) ==
    LET mount == [ name |-> VolumeName(name), mountPath |-> ResolveMountPath(opts, name),
                   readOnly |-> opts.ReadOnly ]
        found == FindContainer(pod.containers, opts.ContainerName, 1)
        containerIdx == IF opts.ContainerName # <<>> THEN found ELSE 1
    IN  IF Len(pod.containers) = 0
        THEN [err |-> Msg("pod has no containers"), pod |-> pod]
        ELSE IF opts.ContainerName # <<>> /\ found = 0
        THEN [err |-> Sprintf("container %q not found", <<opts.ContainerName>>), pod |-> pod]
        ELSE IF \E i \in 1..Len(pod.containers[containerIdx].volumeMounts) :
                    pod.containers[containerIdx].volumeMounts[i].name = VolumeName(name)
        THEN [err |-> Msg(""), pod |-> pod]
        ELSE [err |-> Msg(""),
              pod |-> [pod EXCEPT !.containers[containerIdx].volumeMounts = Append(@, mount)]]

EnvName(prefix, suffix) == prefix \o suffix

\* the variables injectEnvVars builds for the Model, in order
BuildEnvVars(name, model, opts) ==
    LET prefix == EnvVarPrefix(name)
        source == model.spec.source
    IN  << [name |-> EnvName(prefix, <<"_", "N", "A", "M", "E">>), value |-> name],
           [name |-> EnvName(prefix, <<"_", "M", "O", "U", "N", "T", "_", "P", "A", "T", "H">>),
            value |-> ResolveMountPath(opts, name)] >>
        \o (IF model.spec.version # <<>>
            THEN << [name |-> EnvName(prefix, <<"_", "V", "E", "R", "S", "I", "O", "N">>),
                     value |-> model.spec.version] >>
            ELSE <<>>)
        \o (CASE "huggingFace" \in source ->
                   << [name |-> EnvName(prefix, <<"_", "S", "O", "U", "R", "C", "E", "_", "T", "Y", "P", "E">>),
                       value |-> <<"h", "u", "g", "g", "i", "n", "g", "f", "a", "c", "e">>],
                      [name |-> EnvName(prefix, <<"_", "R", "E", "P", "O", "_", "I", "D">>),
                       value |-> RepoID] >>
              [] "s3" \in source ->
                   << [name |-> EnvName(prefix, <<"_", "S", "O", "U", "R", "C", "E", "_", "T", "Y", "P", "E">>),
                       value |-> <<"s", "3">>],
                      [name |-> EnvName(prefix, <<"_", "B", "U", "C", "K", "E", "T">>),
                       value |-> Bucket] >>
              [] "url" \in source ->
                   << [name |-> EnvName(prefix, <<"_", "S", "O", "U", "R", "C", "E", "_", "T", "Y", "P", "E">>),
                       value |-> <<"u", "r", "l">>],
                      [name |-> EnvName(prefix, <<"_", "U", "R", "L">>),
                       value |-> SourceURL] >>
              [] OTHER -> <<>>)

\* append the variables whose name the container did not have when the call began
RECURSIVE AppendNewEnv(_, _, _, _)
AppendNewEnv(env, envVars, existingEnvNames, i) ==
    IF i > Len(envVars) THEN env
    ELSE AppendNewEnv(IF envVars[i].name \in existingEnvNames THEN env ELSE Append(env, envVars[i]),
                      envVars, existingEnvNames, i + 1)

\* injectEnvVars adding the variables to the first container whatever the
\* container option says: C40 does not hold of it
injectEnvVars_FirstContainer(pod, name, model, opts) ==
    LET env == pod.containers[1].env
        existingEnvNames == {env[i].name : i \in 1..Len(env)}
    IN  IF Len(pod.containers) = 0
        THEN [err |-> Msg("pod has no containers"), pod |-> pod]
        ELSE [err |-> Msg(""),
              pod |-> [pod EXCEPT !.containers[1].env =
                         AppendNewEnv(@, BuildEnvVars(name, model, opts), existingEnvNames, 1)]]

injectEnvVars(pod, name, model, opts) ==
    LET found == FindContainer(pod.containers, opts.ContainerName, 1)
        containerIdx == IF opts.ContainerName # <<>> /\ found # 0 THEN found ELSE 1
        env == pod.containers[containerIdx].env
        existingEnvNames == {env[i].name : i \in 1..Len(env)}
    IN  IF Len(pod.containers) = 0
        THEN [err |-> Msg("pod has no containers"), pod |-> pod]
        ELSE [err |-> Msg(""),
              pod |-> [pod EXCEPT !.containers[containerIdx].env =
                         AppendNewEnv(@, BuildEnvVars(name, model, opts), existingEnvNames, 1)]]

----------------------------------------------------------------------------
(* webhook: ModelInjector.Handle *)

\* admission.Allowed / Denied / Errored: no patch, the reason in the result
Allowed(req, reason, lookups) ==
    [ allowed |-> TRUE, code |-> 200, reason |-> reason, patched |-> FALSE, patch |-> {},
      pod |-> req.pod, request |-> req, lookups |-> lookups ]
Denied(req, reason, lookups) ==
    [ allowed |-> FALSE, code |-> 403, reason |-> reason, patched |-> FALSE, patch |-> {},
      pod |-> req.pod, request |-> req, lookups |-> lookups ]
Errored(req, code, reason) ==
    [ allowed |-> FALSE, code |-> code, reason |-> reason, patched |-> FALSE, patch |-> {},
      pod |-> req.pod, request |-> req, lookups |-> <<>> ]

\* the JSON patch between the request's pod and the mutated pod: the parts of
\* the pod whose value differs
JSONPatch(orig, pod) ==
    (IF orig.labels # pod.labels THEN {[part |-> "labels", index |-> 0]} ELSE {})
    \cup (IF orig.volumes # pod.volumes THEN {[part |-> "volumes", index |-> 0]} ELSE {})
    \cup {[part |-> "volumeMounts", index |-> i] : i \in
            {j \in 1..Len(pod.containers) :
                orig.containers[j].volumeMounts # pod.containers[j].volumeMounts}}
    \cup {[part |-> "env", index |-> i] : i \in
            {j \in 1..Len(pod.containers) : orig.containers[j].env # pod.containers[j].env}}

PatchResponseFromRaw(req, pod, lookups) ==
    [ allowed |-> TRUE, code |-> 200, reason |-> Msg(""), patched |-> TRUE,
      patch |-> JSONPatch(req.pod, pod), pod |-> pod, request |-> req, lookups |-> lookups ]

\* a readiness gate that also wants the claim name in the status: C38 does not
\* hold of it
ModelReady_WithClaimName(model) ==
    model.status.phase = ModelPhaseReady /\ model.status.pvcName # <<>>

\* a readiness gate that lets a Downloading Model through: C8 does not hold of it
ModelReady_OrDownloading(model) ==
    model.status.phase \in {ModelPhaseReady, ModelPhaseDownloading}

\* the readiness gate of Handle
ModelReady(model) == model.status.phase = ModelPhaseReady

\* the loop of Handle over modelNames[i..]: the denial that ends it, or the pod
\* after the last name
RECURSIVE ProcessModels(_, _, _, _, _, _)
ProcessModels(ms, pod, modelNames, i, opts, lookups) ==
    IF i > Len(modelNames) THEN [denied |-> FALSE, reason |-> Msg(""), pod |-> pod, lookups |-> lookups]
    ELSE
    LET name == TrimSpace(modelNames[i]) IN
    IF name = <<>> THEN ProcessModels(ms, pod, modelNames, i + 1, opts, lookups)
    ELSE
    LET looked  == Append(lookups, name)
        model   == ms[name]
        withVol == injectVolume(pod, name)
        mounted == injectVolumeMount(withVol, name, opts)
        withEnv == injectEnvVars(mounted.pod, name, model, opts)
    IN  IF name \notin DOMAIN ms
        THEN [ denied |-> TRUE, pod |-> pod, lookups |-> looked,
               reason |-> Sprintf("model %q not found: %v", <<name, "NotFound">>) ]
        ELSE IF ~ModelReady(model)
        THEN [ denied |-> TRUE, pod |-> pod, lookups |-> looked,
               reason |-> Sprintf("model %q is not ready (phase: %s)", <<name, model.status.phase>>) ]
        ELSE IF mounted.err.fmt # ""
        THEN [ denied |-> TRUE, pod |-> withVol, lookups |-> looked,
               reason |-> Sprintf("failed to inject volume mount for model %q: %v",
                                  <<name, mounted.err>>) ]
        ELSE IF opts.InjectEnv /\ withEnv.err.fmt # ""
        THEN [ denied |-> TRUE, pod |-> mounted.pod, lookups |-> looked,
               reason |-> Sprintf("failed to inject env vars for model %q: %v",
                                  <<name, withEnv.err>>) ]
        ELSE ProcessModels(ms, IF opts.InjectEnv THEN withEnv.pod ELSE mounted.pod,
                           modelNames, i + 1, opts, looked)

\* a marker test that looks for the value "1": C11 does not hold of it
AlreadyInjected_One(pod) ==
    LabelInjected \in DOMAIN pod.labels /\ pod.labels[LabelInjected] = <<"1">>

\* the marker label test of Handle
AlreadyInjected(pod) ==
    LabelInjected \in DOMAIN pod.labels /\ pod.labels[LabelInjected] = StrTrue

\* a trigger test that takes an empty inject annotation for a request: C10
\* does not hold of it
InjectionRequested_IfPresent(pod) == AnnotationInject \in DOMAIN pod.annotations

\* the trigger annotation test of Handle
InjectionRequested(pod) ==
    AnnotationInject \in DOMAIN pod.annotations /\ pod.annotations[AnnotationInject] # <<>>

\* req = [decodable, pod]; ms are the Models of the request's namespace
Handle(ms, req) ==
    LET pod == req.pod
        opts == parseOptions(pod.annotations)
        modelNames == Split(pod.annotations[AnnotationInject], ",")
        done == ProcessModels(ms, pod, modelNames, 1, opts, <<>>)
    IN  IF ~req.decodable
        THEN Errored(req, 400, Msg("decode"))
        ELSE IF AlreadyInjected(pod)
        THEN Allowed(req, Msg("already injected"), <<>>)
        ELSE IF ~InjectionRequested(pod)
        THEN Allowed(req, Msg("no injection requested"), <<>>)
        ELSE IF done.denied
        THEN Denied(req, done.reason, done.lookups)
        ELSE PatchResponseFromRaw(req, [done.pod EXCEPT !.labels = (LabelInjected :> StrTrue) @@ @],
                                  done.lookups)

----------------------------------------------------------------------------
(* Admission requests of the model *)

MainName == <<"m", "a", "i", "n">>
SideName == <<"s", "i", "d", "e">>
Container(name) == [name |-> name, volumeMounts |-> <<>>, env |-> <<>>]
MakePod(labels, annotations, containers) ==
    [labels |-> labels, annotations |-> annotations, volumes |-> <<>>, containers |-> containers]
Request(pod) == [decodable |-> TRUE, pod |-> pod]

\* a name no Model carries
Unknown == <<"z", "z">>

\* values of the inject annotation
InjectValues ==
    { <<>>, N1, N2, Unknown,
      N1 \o <<",">> \o N2,
      N2 \o <<",">> \o N1,
      N1 \o <<",">> \o Unknown,
      N1 \o <<",">> \o N1,
      <<" ">> \o N1 \o <<" ", ",", " ", ",">> \o N2,
      <<" ", ",">> }

ContainerLists == { <<>>, <<Container(MainName)>>, <<Container(MainName), Container(SideName)>> }
LabelMaps == { <<>>, LabelInjected :> StrTrue, LabelInjected :> StrFalse }

\* one option annotation next to an inject annotation
OptionMaps ==
    { AnnotationMountPath :> <<"/", "d">>,
      AnnotationMountPath :> (<<"/", "d", "/">> \o NamePlaceholder),
      AnnotationReadOnly :> StrFalse,
      AnnotationContainer :> SideName,
      AnnotationContainer :> Unknown,
      AnnotationInjectEnv :> StrFalse }

\* entries a pod may carry under the names derived for N1 before it is
\* admitted: the volume of TestInjectVolume_NoDuplicate, a volume of that name
\* bound to another claim, a mount of that name and a variable of that name
OwnVolume == [name |-> VolumeName(N1), claimName |-> PVCName(N1), readOnly |-> FALSE]
ForeignVolume == [name |-> VolumeName(N1), claimName |-> <<"x">>, readOnly |-> FALSE]
OwnMount == [name |-> VolumeName(N1), mountPath |-> <<"/", "x">>, readOnly |-> FALSE]
OwnEnv == [name |-> EnvName(EnvVarPrefix(N1), <<"_", "N", "A", "M", "E">>), value |-> <<"x">>]

\* pods with one container and one such entry, asking for N1
WiredPods ==
    LET pod == MakePod(<<>>, AnnotationInject :> N1, <<Container(MainName)>>) IN
    { [pod EXCEPT !.volumes = <<OwnVolume>>],
      [pod EXCEPT !.volumes = <<ForeignVolume>>],
      [pod EXCEPT !.containers[1].volumeMounts = <<OwnMount>>],
      [pod EXCEPT !.volumes = <<OwnVolume>>, !.containers[1].volumeMounts = <<OwnMount>>],
      [pod EXCEPT !.containers[1].env = <<OwnEnv>>] }

Requests ==
    { Request(MakePod(l, <<>>, <<Container(MainName)>>)) : l \in LabelMaps }
    \cup { Request(pod) : pod \in WiredPods }
    \cup { Request(MakePod(l, AnnotationInject :> v, <<Container(MainName)>>)) :
             l \in LabelMaps, v \in InjectValues }
    \cup { Request(MakePod(<<>>, AnnotationInject :> v, c)) :
             v \in InjectValues, c \in ContainerLists }
    \cup { Request(MakePod(<<>>, (AnnotationInject :> N1) @@ o, c)) :
             o \in OptionMaps, c \in ContainerLists }
    \cup { [decodable |-> FALSE, pod |-> MakePod(<<>>, <<>>, <<>>)] }

\* no admission request has been answered by the last step
NoRequest == [decodable |-> FALSE, pod |-> MakePod(<<>>, <<>>, <<>>)]
NoResponse ==
    [ allowed |-> FALSE, code |-> 0, reason |-> Msg(""), patched |-> FALSE, patch |-> {},
      pod |-> NoRequest.pod, request |-> NoRequest, lookups |-> <<>> ]

----------------------------------------------------------------------------
(* Steps of the system *)

World == [models |-> models, pvcs |-> pvcs, jobs |-> jobs]

\* the faults that can show in a pass for n: those of the calls its handler makes
ApplicableFaults(n) ==
    LET phase   == models[n].status.phase
        pvcRead == {"GetPVC"} \cup (IF PVCName(n) \in DOMAIN pvcs THEN {"StalePVC"} ELSE {})
        jobRead == {"GetJob"} \cup (IF JobName(n) \in DOMAIN jobs THEN {"StaleJob"} ELSE {})
        pvcNew  == IF PVCName(n) \in DOMAIN pvcs THEN {} ELSE {"CreatePVC"}
        jobNew  == IF JobName(n) \in DOMAIN jobs THEN {} ELSE {"CreateJob"}
    IN  IF n \notin DOMAIN models THEN {"GetModel"}
        ELSE {"GetModel", "Update"} \cup
             ( CASE phase \in {"", ModelPhasePending} -> pvcRead \cup pvcNew \cup jobRead \cup jobNew
                 [] phase = ModelPhaseReady -> pvcRead
                 [] phase \in {ModelPhaseDownloading, ModelPhaseFailed} -> jobRead
                 [] OTHER -> {} )

\* one reconcile pass for the request key n, answered with the faults f
ReconcilePass(n, f) ==
    LET out == Reconcile(World, n, f) IN
    /\ f \subseteq ApplicableFaults(n)
    /\ models' = out.w.models
    /\ pvcs' = out.w.pvcs
    /\ jobs' = out.w.jobs
    /\ res' = out.r
    /\ resp' = NoResponse
    /\ UNCHANGED <<nextUID, now>>

\* a user creates the Model n with the given source and version
CreateModel(n, source, version) ==
    /\ n \notin DOMAIN models
    /\ nextUID <= MaxUID
    /\ models' = (n :> [ uid |-> nextUID, generation |-> 1,
                         spec |-> [source |-> source, version |-> version] @@ NoDetails,
                         status |-> EmptyStatus ]) @@ models
    /\ nextUID' = nextUID + 1
    /\ res' = NoResult
    /\ resp' = NoResponse
    /\ UNCHANGED <<pvcs, jobs, now>>

\* the Job controller publishes a new value of one counter of the Job of Model n
JobCountUpdate(n, counter, v) ==
    /\ JobName(n) \in DOMAIN jobs
    /\ jobs[JobName(n)].status[counter] # v
    /\ jobs' = [jobs EXCEPT ![JobName(n)].status[counter] = v]
    /\ res' = NoResult
    /\ resp' = NoResponse
    /\ UNCHANGED <<models, pvcs, nextUID, now>>

\* the Job controller publishes new conditions of the Job of Model n
JobConditionUpdate(n, conditions) ==
    /\ JobName(n) \in DOMAIN jobs
    /\ jobs[JobName(n)].status.conditions # conditions
    /\ jobs' = [jobs EXCEPT ![JobName(n)].status.conditions = conditions]
    /\ res' = NoResult
    /\ resp' = NoResponse
    /\ UNCHANGED <<models, pvcs, nextUID, now>>

\* somebody deletes the storage claim of Model n
DeletePVC(n) ==
    /\ PVCName(n) \in DOMAIN pvcs
    /\ pvcs' = [k \in DOMAIN pvcs \ {PVCName(n)} |-> pvcs[k]]
    /\ res' = NoResult
    /\ resp' = NoResponse
    /\ UNCHANGED <<models, jobs, nextUID, now>>

\* somebody deletes the Job of Model n
DeleteJob(n) ==
    /\ JobName(n) \in DOMAIN jobs
    /\ jobs' = [k \in DOMAIN jobs \ {JobName(n)} |-> jobs[k]]
    /\ res' = NoResult
    /\ resp' = NoResponse
    /\ UNCHANGED <<models, pvcs, nextUID, now>>

\* a user deletes the Model n; what it owns stays until the garbage collector
\* gets to it
DeleteModel(n) ==
    /\ n \in DOMAIN models
    /\ models' = [k \in DOMAIN models \ {n} |-> models[k]]
    /\ res' = NoResult
    /\ resp' = NoResponse
    /\ UNCHANGED <<pvcs, jobs, nextUID, now>>

\* a user creates a storage claim under the name derived for n; it carries no
\* controller reference
ApplyPVC(n) ==
    /\ PVCName(n) \notin DOMAIN pvcs
    /\ pvcs' = (PVCName(n) :> [owner |-> NoOwner]) @@ pvcs
    /\ res' = NoResult
    /\ resp' = NoResponse
    /\ UNCHANGED <<models, jobs, nextUID, now>>

\* the owner the reference names is gone: no Model has its uid
Orphaned(owner) ==
    owner.uid # 0 /\ \A k \in DOMAIN models : models[k].uid # owner.uid

\* the garbage collector deletes the storage claim under the name derived for
\* n once its owner is gone
CollectPVC(n) ==
    /\ PVCName(n) \in DOMAIN pvcs
    /\ Orphaned(pvcs[PVCName(n)].owner)
    /\ pvcs' = [k \in DOMAIN pvcs \ {PVCName(n)} |-> pvcs[k]]
    /\ res' = NoResult
    /\ resp' = NoResponse
    /\ UNCHANGED <<models, jobs, nextUID, now>>

\* the garbage collector deletes the Job under the name derived for n once its
\* owner is gone
CollectJob(n) ==
    /\ JobName(n) \in DOMAIN jobs
    /\ Orphaned(jobs[JobName(n)].owner)
    /\ jobs' = [k \in DOMAIN jobs \ {JobName(n)} |-> jobs[k]]
    /\ res' = NoResult
    /\ resp' = NoResponse
    /\ UNCHANGED <<models, pvcs, nextUID, now>>

\* the API server sends the admission request req to the mutator; requests are
\* answered one at a time, and the answer stays in resp until the system moves on
Admit(req) ==
    /\ resp = NoResponse
    /\ resp' = Handle(models, req)
    /\ res' = NoResult
    /\ UNCHANGED <<models, pvcs, jobs, nextUID, now>>

\* the API server sends the pod of a patched answer to the mutator again (a
\* retried admission)
Readmit ==
    /\ resp.patched
    /\ resp' = Handle(models, Request(resp.pod))
    /\ res' = NoResult
    /\ UNCHANGED <<models, pvcs, jobs, nextUID, now>>

\* a user updates the optional fields of the spec of Model n; the API server
\* counts the generation up
UpdateSpec(n, details) ==
    /\ n \in DOMAIN models
    /\ models[n].generation < MaxGeneration
    /\ \E field \in DOMAIN details : models[n].spec[field] # details[field]
    /\ models' = [models EXCEPT ![n].spec = details @@ @,
                                ![n].generation = @ + 1]
    /\ res' = NoResult
    /\ resp' = NoResponse
    /\ UNCHANGED <<pvcs, jobs, nextUID, now>>

\* a client writes the status of the Downloading Model n without the claim
\* name, as a release that did not have the field wrote it
StatusWithoutPVCName(n) ==
    /\ n \in DOMAIN models
    /\ models[n].status.phase = ModelPhaseDownloading
    /\ models[n].status.pvcName # <<>>
    /\ models' = [models EXCEPT ![n].status.pvcName = <<>>]
    /\ res' = NoResult
    /\ resp' = NoResponse
    /\ UNCHANGED <<pvcs, jobs, nextUID, now>>

\* time passes
Tick ==
    /\ now < MaxTime
    /\ now' = now + 1
    /\ res' = NoResult
    /\ resp' = NoResponse
    /\ UNCHANGED <<models, pvcs, jobs, nextUID>>

----------------------------------------------------------------------------
(* Specifications *)

Init ==
    /\ models = <<>>
    /\ pvcs = <<>>
    /\ jobs = <<>>
    /\ nextUID = 1
    /\ now = 0
    /\ res = NoResult
    /\ resp = NoResponse

\* the reconciler of one Model (N1) and everything that acts on its objects
Next ==
    \/ \E source \in SourceShapes : CreateModel(N1, source, <<>>)
    \/ \E f \in FaultSets : ReconcilePass(N1, f)
    \/ \E counter \in JobCounters, v \in 0..MaxCount : JobCountUpdate(N1, counter, v)
    \/ \E conditions \in JobConditionLists : JobConditionUpdate(N1, conditions)
    \/ DeletePVC(N1)
    \/ DeleteJob(N1)

Spec == Init /\ [][Next]_vars

\* the job of a Model of the mutator's namespace finishes, well or badly
JobFinishes(n) ==
    \/ JobCountUpdate(n, "succeeded", 1)
    \/ /\ JobCountUpdate(n, "failed", 1)
       /\ jobs[JobName(n)].status.conditions = <<>>
    \/ /\ JobConditionUpdate(n, << [type |-> "Failed", status |-> "True",
                                    message |-> "backoff limit reached"] >>)
       /\ jobs[JobName(n)].status.failed > 0

\* the mutator next to the reconciler of two Models
NextInject ==
    \/ \E source \in SingleSources : CreateModel(N1, source, <<>>)
    \/ CreateModel(N2, {"s3"}, <<"v", "1">>)
    \/ \E n \in ModelNames : ReconcilePass(n, {})
    \/ \E n \in ModelNames : JobFinishes(n)
    \/ DeletePVC(N1)
    \/ \E req \in Requests : Admit(req)
    \/ Readmit

SpecInject == Init /\ [][NextInject]_vars

\* the sources of the Models that come and go
LifecycleSources == {{}, {"url"}, {"git"}}

\* the reconciler of a Model that is created, deleted and created again, with
\* the garbage collector and a user who creates a claim of the derived name
NextLifecycle ==
    \/ \E source \in LifecycleSources : CreateModel(N1, source, <<>>)
    \/ DeleteModel(N1)
    \/ \E f \in FaultSets : ReconcilePass(N1, f)
    \/ ApplyPVC(N1)
    \/ CollectPVC(N1)
    \/ CollectJob(N1)
    \/ JobFinishes(N1)

SpecLifecycle == Init /\ [][NextLifecycle]_vars

\* the Job of n is there and has neither a success counted nor a Failed
\* condition: the Job controller is still working on it
JobUnfinished(n) ==
    /\ JobName(n) \in DOMAIN jobs
    /\ jobs[JobName(n)].status.succeeded = 0
    /\ FailedCondition(jobs[JobName(n)].status.conditions, 1) = 0

\* pods of the unfinished Job start, stop or fail
JobRuns(n) ==
    /\ JobUnfinished(n)
    /\ \E v \in 0..MaxCount : JobCountUpdate(n, "active", v) \/ JobCountUpdate(n, "failed", v)

\* the unfinished Job completes
JobSucceeds(n) ==
    /\ JobUnfinished(n)
    /\ JobCountUpdate(n, "succeeded", 1)

\* the unfinished Job is given up: the Job controller publishes the condition
\* Failed, whatever the failure counter says
JobFails(n) ==
    /\ JobUnfinished(n)
    /\ JobConditionUpdate(n, << [type |-> "Failed", status |-> "True",
                                 message |-> "backoff limit reached"] >>)

\* the reconciler of two Models with a valid source, no deletion and no fault,
\* and Jobs that run until they succeed or fail
NextLive ==
    \/ \E n \in ModelNames, source \in SingleSources : CreateModel(n, source, <<>>)
    \/ \E n \in ModelNames : ReconcilePass(n, {})
    \/ \E n \in ModelNames : JobRuns(n)
    \/ \E n \in ModelNames : JobSucceeds(n)
    \/ \E n \in ModelNames : JobFails(n)

\* the Model names of the naming tests that a cluster accepts, next to N1, N2
N3 == <<"l", "-", "3", "-", "8", "b">>
NamingNames == {N1, N2, N3}

\* values of the mount-path annotation for a pod asking for n
MountPathValues(n) ==
    { <<>>, <<"/">>, <<"/", "d">>, <<"/", "d", "/">>, <<"/", "d", "/", "/">>,
      <<"/", "d", "/">> \o NamePlaceholder,
      <<"/">> \o NamePlaceholder \o <<"/">> \o NamePlaceholder,
      <<"/", "x">> \o n }

\* values of the read-only and inject-env annotations
ToggleValues == { StrFalse, StrTrue, <<>>, <<"F", "a", "l", "s", "e">>, <<"0">> }

\* pods with one container asking for n with no option or with one
OptionRequests ==
    UNION { { Request(MakePod(<<>>, AnnotationInject :> n, <<Container(MainName)>>)) }
            \cup { Request(MakePod(<<>>, (AnnotationInject :> n) @@ (AnnotationMountPath :> v),
                                   <<Container(MainName)>>)) : v \in MountPathValues(n) }
            \cup { Request(MakePod(<<>>, (AnnotationInject :> n) @@ (AnnotationReadOnly :> v),
                                   <<Container(MainName)>>)) : v \in ToggleValues }
            \cup { Request(MakePod(<<>>, (AnnotationInject :> n) @@ (AnnotationInjectEnv :> v),
                                   <<Container(MainName)>>)) : v \in ToggleValues }
            : n \in NamingNames }

\* the mutator answering pods with options, next to the reconciler of Models
\* of the naming tests' names
NextOptions ==
    \/ \E n \in NamingNames : CreateModel(n, {"url"}, <<>>)
    \/ \E n \in NamingNames : ReconcilePass(n, {})
    \/ \E n \in NamingNames : JobSucceeds(n)
    \/ \E req \in OptionRequests : Admit(req)

SpecOptions == Init /\ [][NextOptions]_vars

\* the reconciler of one Model while the clock runs
NextClock ==
    \/ CreateModel(N1, {"url"}, <<>>)
    \/ \E f \in FaultSets : ReconcilePass(N1, f)
    \/ JobFinishes(N1)
    \/ DeletePVC(N1)
    \/ DeleteJob(N1)
    \/ Tick

SpecClock == Init /\ [][NextClock]_vars

\* the reconciler of one Model whose spec is updated
NextRevisions ==
    \/ \E source \in SingleSources : CreateModel(N1, source, <<>>)
    \/ \E details \in SpecDetails : UpdateSpec(N1, details)
    \/ \E f \in {{}, {"Update"}} : ReconcilePass(N1, f)
    \/ JobCountUpdate(N1, "active", 1)
    \/ JobSucceeds(N1)
    \/ DeleteJob(N1)
    \/ StatusWithoutPVCName(N1)

SpecRevisions == Init /\ [][NextRevisions]_vars

\* the reconcilers of two Models, their passes interleaved, with Jobs that
\* finish and claims and Jobs that are deleted
NextPair ==
    \/ CreateModel(N1, {"url"}, <<>>)
    \/ CreateModel(N2, {"git"}, <<>>)
    \/ \E n \in ModelNames, f \in {{}, {"StalePVC"}} : ReconcilePass(n, f)
    \/ \E n \in ModelNames : JobSucceeds(n)
    \/ \E n \in ModelNames : JobFails(n)
    \/ \E n \in ModelNames : DeletePVC(n)
    \/ \E n \in ModelNames : DeleteJob(n)

SpecPair == Init /\ [][NextPair]_vars

\* the reconciler of a Model that names no source, with faults, a claim that
\* is deleted, spec updates that leave the source empty, and a running clock
NextEmpty ==
    \/ CreateModel(N1, {}, <<>>)
    \/ \E f \in FaultSets : ReconcilePass(N1, f)
    \/ DeletePVC(N1)
    \/ \E details \in SpecDetails : UpdateSpec(N1, details)
    \/ Tick

\* every pass on a Model returns a positive RequeueAfter or an error the
\* controller retries, so passes keep coming, and one of them is answered
\* without a fault
SpecEmpty ==
    /\ Init
    /\ [][NextEmpty]_vars
    /\ WF_vars(ReconcilePass(N1, {}))

\* every pass returns a positive RequeueAfter, so the controller keeps
\* scheduling passes for every Model: a pass that can change something is
\* eventually run
SpecLive ==
    /\ Init
    /\ [][NextLive]_vars
    /\ \A n \in ModelNames : WF_vars(ReconcilePass(n, {}))

----------------------------------------------------------------------------
(* Properties of the reconciler.  res describes the pass that led to the    *)
(* current state, so a predicate over res and the current objects states     *)
(* what a pass leaves behind.                                                *)

\* the last step was a pass that found the Model n and dispatched on phase
PassIn(n, phase) == res.name = n /\ res.found /\ res.phase = phase
\* the platform answered every call of the pass without a fault
NoFault == res.faults = {}

\* C1: a pass on a Model with exactly one source variant and a status no pass
\* has written, answered without faults, ends in phase Downloading with
\* status.pvcName the derived claim name, a positive requeue delay and no
\* error, and both the storage claim and the retrieval task exist.
C1_FirstPassReachesDownloading ==
    \A n \in ModelNames :
        ( /\ PassIn(n, ModelPhasePending)
          /\ res.status0 = EmptyStatus
          /\ NoFault
          /\ Cardinality(models[n].spec.source) = 1 )
        => /\ models[n].status.phase = ModelPhaseDownloading
           /\ models[n].status.pvcName = <<"m", "o", "d", "e", "l", "-">> \o n
           /\ res.err = ""
           /\ res.requeue > 0
           /\ PVCName(n) \in DOMAIN pvcs
           /\ JobName(n) \in DOMAIN jobs

C1_Witness ==
    /\ PassIn(N1, ModelPhasePending)
    /\ res.status0 = EmptyStatus
    /\ NoFault
    /\ models[N1].spec.source = {"git"}
    /\ res.created = {"pvc", "job"}
    /\ models[N1].status.phase = ModelPhaseDownloading

\* C2: a Pending pass on a Model whose source has no variant or more than one
\* ends in phase Failed, and no retrieval task exists for such a Model.
C2_InvalidSourceFails ==
    \A n \in ModelNames :
        /\ ( /\ PassIn(n, ModelPhasePending)
             /\ NoFault
             /\ Cardinality(models[n].spec.source) # 1 )
           => models[n].status.phase = ModelPhaseFailed
        /\ ( /\ n \in DOMAIN models
             /\ Cardinality(models[n].spec.source) # 1 )
           => JobName(n) \notin DOMAIN jobs

\* C3: a Downloading pass that finds the task with a success count above 0
\* ends in phase Ready with progress 100, whatever the task's failure count
\* and conditions are.
C3_SuccessGivesReady ==
    \A n \in ModelNames :
        ( /\ PassIn(n, ModelPhaseDownloading)
          /\ NoFault
          /\ JobName(n) \in DOMAIN jobs
          /\ jobs[JobName(n)].status.succeeded > 0 )
        => /\ models[n].status.phase = ModelPhaseReady
           /\ models[n].status.progress = 100

C3_Witness ==
    /\ PassIn(N1, ModelPhaseDownloading)
    /\ NoFault
    /\ JobName(N1) \in DOMAIN jobs
    /\ jobs[JobName(N1)].status.succeeded > 0
    /\ jobs[JobName(N1)].status.failed > 0
    /\ FailedCondition(jobs[JobName(N1)].status.conditions, 1) # 0
    /\ models[N1].status.phase = ModelPhaseReady

\* the task of n carries a condition of type Failed and status True
HasFailureCondition(n) ==
    \E i \in 1..Len(jobs[JobName(n)].status.conditions) :
        /\ jobs[JobName(n)].status.conditions[i].type = "Failed"
        /\ jobs[JobName(n)].status.conditions[i].status = "True"

\* C4: a Downloading pass that finds the task not succeeded and carrying a
\* failure condition ends in phase Failed with the condition's message in the
\* status message, for every value of the failure counter.
C4_FailureConditionGivesFailed ==
    \A n \in ModelNames :
        ( /\ PassIn(n, ModelPhaseDownloading)
          /\ NoFault
          /\ JobName(n) \in DOMAIN jobs
          /\ jobs[JobName(n)].status.succeeded = 0
          /\ HasFailureCondition(n) )
        => /\ models[n].status.phase = ModelPhaseFailed
           /\ models[n].status.message.fmt = "Download failed: %s"
           /\ models[n].status.message.args = <<"backoff limit reached">>

\* C5: a Ready pass ends in phase Pending when the storage claim is missing;
\* when the claim exists the phase stays Ready, the status is not written and
\* the delay is the Ready interval.
C5_ReadyPass ==
    \A n \in ModelNames :
        ( PassIn(n, ModelPhaseReady) /\ NoFault )
        => IF PVCName(n) \in DOMAIN pvcs
           THEN /\ models[n].status.phase = ModelPhaseReady
                /\ models[n].status = res.status0
                /\ ~res.wrote
                /\ res.requeue = 300
                /\ res.err = ""
           ELSE /\ models[n].status.phase = ModelPhasePending
                /\ res.wrote

C5_Witness ==
    /\ PassIn(N1, ModelPhaseReady)
    /\ NoFault
    /\ PVCName(N1) \notin DOMAIN pvcs
    /\ models[N1].status.phase = ModelPhasePending

\* C6: a Failed pass ends in phase Pending when the retrieval task is missing;
\* when the task exists the phase stays Failed and the status is not written.
C6_FailedPass ==
    \A n \in ModelNames :
        ( PassIn(n, ModelPhaseFailed) /\ NoFault )
        => IF JobName(n) \in DOMAIN jobs
           THEN /\ models[n].status.phase = ModelPhaseFailed
                /\ models[n].status = res.status0
                /\ ~res.wrote
                /\ res.err = ""
           ELSE /\ models[n].status.phase = ModelPhasePending
                /\ res.wrote

C6_Witness ==
    /\ PassIn(N1, ModelPhaseFailed)
    /\ NoFault
    /\ JobName(N1) \in DOMAIN jobs
    /\ res.status0.phase = ModelPhaseFailed
    /\ models[N1].status.phase = ModelPhaseFailed
    /\ res.requeue = 60

\* C7: a Pending pass on a Model with a source that finds the storage claim or
\* the retrieval task already there, by its lookup or by the create call
\* answering AlreadyExists, returns no error, writes no failure to the status
\* message, creates nothing a second time and ends in phase Downloading.
C7_CreationIdempotent ==
    \A n \in ModelNames :
        ( /\ PassIn(n, ModelPhasePending)
          /\ res.faults \subseteq {"StalePVC", "StaleJob"}
          /\ models[n].spec.source # {}
          /\ \/ PVCName(n) \in DOMAIN pvcs /\ "pvc" \notin res.created
             \/ JobName(n) \in DOMAIN jobs /\ "job" \notin res.created )
        => /\ res.err = ""
           /\ models[n].status.message = Msg("Download started")
           /\ models[n].status.phase = ModelPhaseDownloading

----------------------------------------------------------------------------
(* Properties of the mutator.  resp is the answer to resp.request, given    *)
(* against the Models of the current state.                                  *)

\* the last step answered an admission request
Answered == resp.code # 0

\* the names of the inject annotation of pod, trimmed, empty ones dropped
RequestedNames(pod) ==
    LET fields == Split(pod.annotations[AnnotationInject], ",") IN
    SelectSeq([i \in 1..Len(fields) |-> TrimSpace(fields[i])], LAMBDA x : x # <<>>)

HasMarker(pod) ==
    "models.main-currents.news/injected" \in DOMAIN pod.labels
    /\ pod.labels["models.main-currents.news/injected"] = <<"t", "r", "u", "e">>

HasInject(pod) ==
    "models.main-currents.news/inject" \in DOMAIN pod.annotations
    /\ pod.annotations["models.main-currents.news/inject"] # <<>>

\* the request gets past the early returns of Handle
Proceeds(req) == req.decodable /\ ~HasMarker(req.pod) /\ HasInject(req.pod)

\* positions of the requested names that are no Model, or a Model not Ready
NotReadyAt(names) ==
    { i \in 1..Len(names) :
        \/ names[i] \notin DOMAIN models
        \/ models[names[i]].status.phase # "Ready" }

Least(S) == CHOOSE i \in S : \A j \in S : i <= j

\* the denial cites the requested name at position i as missing, or as not
\* Ready with the phase it has
CitesNotReady(names, i) ==
    /\ resp.reason.args[1] = names[i]
    /\ IF names[i] \in DOMAIN models
       THEN /\ resp.reason.fmt = "model %q is not ready (phase: %s)"
            /\ resp.reason.args[2] = models[names[i]].status.phase
       ELSE resp.reason.fmt = "model %q not found: %v"

\* the pod has a container the mount can go to
ContainerResolves(pod) ==
    /\ Len(pod.containers) > 0
    /\ AnnotationContainer \in DOMAIN pod.annotations
       => \/ pod.annotations[AnnotationContainer] = <<>>
          \/ \E i \in 1..Len(pod.containers) :
                pod.containers[i].name = pod.annotations[AnnotationContainer]

\* C8 as stated: a patch is answered only if every requested name is a Ready
\* Model; if some requested name is missing or not Ready the request is
\* denied without a patch, with a message citing such a name (and its phase).
C8_DenialCitesNotReadyName ==
    LET names == RequestedNames(resp.request.pod)
        bad   == NotReadyAt(names)
    IN  (Answered /\ Proceeds(resp.request))
        => /\ resp.patched => bad = {}
           /\ bad # {} => /\ ~resp.allowed
                          /\ resp.patch = {}
                          /\ \E i \in bad : CitesNotReady(names, i)

\* C8 amended: a patch is answered only if every requested name is a Ready
\* Model; if some requested name is missing or not Ready the request is
\* denied, no patch is emitted and the pod is returned as it came.  The
\* message cites the first such name (and its phase) when the target
\* container resolves or that name comes first; otherwise it cites the first
\* requested name, whose mount failed.
C8_ReadinessGate ==
    LET names == RequestedNames(resp.request.pod)
        bad   == NotReadyAt(names)
    IN  (Answered /\ Proceeds(resp.request))
        => /\ resp.patched => bad = {}
           /\ bad # {} =>
                /\ ~resp.allowed
                /\ ~resp.patched
                /\ resp.patch = {}
                /\ resp.pod = resp.request.pod
                /\ IF ContainerResolves(resp.request.pod) \/ Least(bad) = 1
                   THEN CitesNotReady(names, Least(bad))
                   ELSE /\ resp.reason.args[1] = names[1]
                        /\ resp.reason.fmt = "failed to inject volume mount for model %q: %v"

C8_Witness ==
    /\ Answered
    /\ Proceeds(resp.request)
    /\ RequestedNames(resp.request.pod) = <<N2, N1>>
    /\ resp.lookups = <<N2, N1>>
    /\ N1 \in DOMAIN models
    /\ models[N1].status.phase = ModelPhaseDownloading
    /\ ~resp.allowed
    /\ resp.reason = Sprintf("model %q is not ready (phase: %s)", <<N1, "Downloading">>)

\* the names the mutator derives for the Models of the model, written out
ExpectedVolumeName(n) ==
    IF n = N1 THEN <<"m", "o", "d", "e", "l", "-", "m", "1">>
    ELSE <<"m", "o", "d", "e", "l", "-", "a", "-", "b">>
ExpectedMountPath(n) ==
    IF n = N1 THEN <<"/", "m", "o", "d", "e", "l", "s", "/", "m", "1">>
    ELSE <<"/", "m", "o", "d", "e", "l", "s", "/", "a", "-", "b">>
ExpectedNameVar(n) ==
    IF n = N1 THEN <<"M", "O", "D", "E", "L", "_", "M", "1", "_", "N", "A", "M", "E">>
    ELSE <<"M", "O", "D", "E", "L", "_", "A", "_", "B", "_", "N", "A", "M", "E">>
ExpectedMountPathVar(n) ==
    IF n = N1
    THEN <<"M", "O", "D", "E", "L", "_", "M", "1", "_", "M", "O", "U", "N", "T", "_", "P", "A", "T", "H">>
    ELSE <<"M", "O", "D", "E", "L", "_", "A", "_", "B", "_", "M", "O", "U", "N", "T", "_", "P", "A", "T", "H">>

\* the request names the one Model n, has a container, no option annotation
\* and nothing wired, and n is Ready
PlainRequestFor(n) ==
    /\ Answered
    /\ Proceeds(resp.request)
    /\ DOMAIN resp.request.pod.annotations = {AnnotationInject}
    /\ RequestedNames(resp.request.pod) = <<n>>
    /\ Len(resp.request.pod.containers) >= 1
    /\ resp.request.pod.volumes = <<>>
    /\ \A i \in 1..Len(resp.request.pod.containers) :
          /\ resp.request.pod.containers[i].volumeMounts = <<>>
          /\ resp.request.pod.containers[i].env = <<>>
    /\ n \in DOMAIN models
    /\ models[n].status.phase = ModelPhaseReady

\* C9: such a request is answered with a patched pod that has exactly one
\* volume, named model-<n> and bound read-only to the claim model-<n>, exactly
\* one mount, of that volume at /models/<n> on the first container, and on
\* that container the variables MODEL_<N>_NAME and MODEL_<N>_MOUNT_PATH.
C9_PlainInjection ==
    \A n \in ModelNames :
        PlainRequestFor(n)
        => /\ resp.allowed /\ resp.patched
           /\ resp.pod.volumes = << [ name |-> ExpectedVolumeName(n),
                                      claimName |-> ExpectedVolumeName(n),
                                      readOnly |-> TRUE ] >>
           /\ Len(resp.pod.containers) = Len(resp.request.pod.containers)
           /\ Len(resp.pod.containers[1].volumeMounts) = 1
           /\ resp.pod.containers[1].volumeMounts[1].name = ExpectedVolumeName(n)
           /\ resp.pod.containers[1].volumeMounts[1].mountPath = ExpectedMountPath(n)
           /\ \A i \in 2..Len(resp.pod.containers) :
                 resp.pod.containers[i] = resp.request.pod.containers[i]
           /\ \E i \in 1..Len(resp.pod.containers[1].env) :
                 /\ resp.pod.containers[1].env[i].name = ExpectedNameVar(n)
                 /\ resp.pod.containers[1].env[i].value = n
           /\ \E i \in 1..Len(resp.pod.containers[1].env) :
                 /\ resp.pod.containers[1].env[i].name = ExpectedMountPathVar(n)
                 /\ resp.pod.containers[1].env[i].value = ExpectedMountPath(n)

C9_Witness ==
    /\ PlainRequestFor(N2)
    /\ Len(resp.request.pod.containers) = 2
    /\ resp.patched
    /\ Len(resp.pod.volumes) = 1

\* C10: a request whose pod carries the marker label injected=true, or has no
\* inject annotation or an empty one, is allowed with an empty patch, the pod
\* untouched and no Model looked up; the label decides also when the inject
\* annotation is there.
C10_NoInjectionRequested ==
    ( /\ Answered
      /\ resp.request.decodable
      /\ HasMarker(resp.request.pod) \/ ~HasInject(resp.request.pod) )
    => /\ resp.allowed
       /\ resp.code = 200
       /\ ~resp.patched
       /\ resp.patch = {}
       /\ resp.pod = resp.request.pod
       /\ resp.lookups = <<>>

C10_Witness ==
    /\ Answered
    /\ HasMarker(resp.request.pod)
    /\ HasInject(resp.request.pod)
    /\ RequestedNames(resp.request.pod) = <<N1>>
    /\ N1 \in DOMAIN models
    /\ models[N1].status.phase = ModelPhaseReady
    /\ resp.allowed
    /\ resp.patch = {}

----------------------------------------------------------------------------
(* Properties of the mutator, continued *)

\* the Models of the current state, all set to the given phase
Rephased(phase) ==
    [n \in DOMAIN models |-> [models[n] EXCEPT !.status.phase = phase]]

\* the answer to a second invocation on pod against the Models ms leaves the
\* pod as it is
AllowsUnchanged(ms, pod) ==
    LET again == Handle(ms, Request(pod)) IN
    /\ again.allowed
    /\ again.code = 200
    /\ ~again.patched
    /\ again.patch = {}
    /\ again.pod = pod
    /\ again.lookups = <<>>

\* C11: every patched answer is an allow whose pod carries the marker label
\* injected=true, set by the patch when the request did not carry it, and the
\* mutator invoked on that pod allows it unchanged without looking up a Model,
\* whether the Models are as they were, are all in another phase or are gone.
C11_MutationIdempotent ==
    (Answered /\ resp.patched)
    => /\ resp.allowed
       /\ "models.main-currents.news/injected" \in DOMAIN resp.pod.labels
       /\ resp.pod.labels["models.main-currents.news/injected"] = <<"t", "r", "u", "e">>
       /\ ~HasMarker(resp.request.pod) => [part |-> "labels", index |-> 0] \in resp.patch
       /\ AllowsUnchanged(models, resp.pod)
       /\ AllowsUnchanged(<<>>, resp.pod)
       /\ \A phase \in {"", "Pending", "Downloading", "Ready", "Failed"} :
             AllowsUnchanged(Rephased(phase), resp.pod)

\* a patched pod with its volume was sent again and allowed as it is
C11_Witness ==
    /\ Answered
    /\ HasMarker(resp.request.pod)
    /\ Len(resp.request.pod.volumes) = 1
    /\ Len(resp.request.pod.containers[1].volumeMounts) = 1
    /\ RequestedNames(resp.request.pod) = <<N1>>
    /\ resp.allowed
    /\ ~resp.patched
    /\ resp.pod = resp.request.pod

\* the container name the pod asks for, empty when it asks for none
NamedContainer(pod) ==
    IF "models.main-currents.news/container" \in DOMAIN pod.annotations
    THEN pod.annotations["models.main-currents.news/container"]
    ELSE <<>>

\* the position of the container the pod asks for: the first of that name,
\* the first container when no name is given
TargetIndex(pod) ==
    IF NamedContainer(pod) = <<>> THEN 1
    ELSE Least({i \in 1..Len(pod.containers) : pod.containers[i].name = NamedContainer(pod)})

\* the container at position i has a mount of the volume model-<n>
MountedOn(pod, i, n) ==
    \E j \in 1..Len(pod.containers[i].volumeMounts) :
        pod.containers[i].volumeMounts[j].name = ExpectedVolumeName(n)

\* C12: a request that names at least one Model and whose target container
\* does not resolve (no containers, or a container name no container has) is
\* denied without a patch, and when every named Model is Ready the reason is
\* the failed mount; a patched answer has the mounts of the named Models on
\* the target container and leaves every other container as it came.
C12_UnresolvedContainerDenied ==
    LET pod   == resp.request.pod
        names == RequestedNames(pod)
    IN  (Answered /\ Proceeds(resp.request) /\ names # <<>>)
        => /\ ~ContainerResolves(pod)
              => /\ ~resp.allowed
                 /\ ~resp.patched
                 /\ resp.patch = {}
                 /\ resp.pod = pod
                 /\ NotReadyAt(names) = {}
                    => /\ resp.reason.fmt = "failed to inject volume mount for model %q: %v"
                       /\ resp.reason.args[1] = names[1]
                       /\ resp.reason.args[2] =
                            IF Len(pod.containers) = 0
                            THEN Msg("pod has no containers")
                            ELSE Sprintf("container %q not found", <<NamedContainer(pod)>>)
           /\ resp.patched
              => /\ ContainerResolves(pod)
                 /\ Len(resp.pod.containers) = Len(pod.containers)
                 /\ \A i \in 1..Len(names) : MountedOn(resp.pod, TargetIndex(pod), names[i])
                 /\ \A i \in 1..Len(pod.containers) :
                       i # TargetIndex(pod) => resp.pod.containers[i] = pod.containers[i]

\* a pod with two containers asks for a container neither is, for a Ready Model
C12_Witness ==
    /\ Answered
    /\ Proceeds(resp.request)
    /\ RequestedNames(resp.request.pod) = <<N1>>
    /\ N1 \in DOMAIN models
    /\ models[N1].status.phase = ModelPhaseReady
    /\ Len(resp.request.pod.containers) = 2
    /\ NamedContainer(resp.request.pod) = Unknown
    /\ ~resp.allowed
    /\ resp.reason.fmt = "failed to inject volume mount for model %q: %v"

\* no two entries of the sequence carry the same name
DistinctNames(entries) ==
    \A i, j \in 1..Len(entries) : entries[i].name = entries[j].name => i = j

\* the request of the last answer, asking for names instead
AskingFor(names) ==
    [resp.request EXCEPT !.pod.annotations["models.main-currents.news/inject"] = names]

\* C13: in a patched answer no two volumes have the same name, every named
\* Model has its volume model-<m> and its mount on the target container, and
\* no container has two mounts of the same name or two variables of the same
\* name, also when the pod came with a volume, a mount or a variable of a
\* derived name; a request listing a Model twice is answered with the same
\* volumes and containers as the request listing it once.
C13_InsertionIdempotent ==
    LET pod   == resp.request.pod
        names == RequestedNames(pod)
    IN  (Answered /\ Proceeds(resp.request) /\ resp.patched)
        => /\ DistinctNames(resp.pod.volumes)
           /\ \A i \in 1..Len(resp.pod.containers) :
                 /\ DistinctNames(resp.pod.containers[i].volumeMounts)
                 /\ DistinctNames(resp.pod.containers[i].env)
           /\ \A k \in 1..Len(names) :
                 /\ \E i \in 1..Len(resp.pod.volumes) :
                       resp.pod.volumes[i].name = ExpectedVolumeName(names[k])
                 /\ MountedOn(resp.pod, TargetIndex(pod), names[k])
           /\ \A n \in ModelNames :
                 names = <<n, n>>
                 => /\ Handle(models, AskingFor(n)).patched
                    /\ Handle(models, AskingFor(n)).pod.volumes = resp.pod.volumes
                    /\ Handle(models, AskingFor(n)).pod.containers = resp.pod.containers
                    /\ Len(resp.pod.volumes) = 1

\* a request listing N1 twice was patched
C13_Witness ==
    /\ Answered
    /\ resp.patched
    /\ RequestedNames(resp.request.pod) = <<N1, N1>>
    /\ Len(resp.pod.volumes) = 1
    /\ Len(resp.pod.containers[1].volumeMounts) = 1
    /\ Len(resp.pod.containers[1].env) >= 2

\* the prefix of the variables of the Models of the model, written out
ExpectedPrefix(n) ==
    IF n = N1 THEN <<"M", "O", "D", "E", "L", "_", "M", "1">>
    ELSE <<"M", "O", "D", "E", "L", "_", "A", "_", "B">>

\* the container at position i has a variable of that name
HasVar(pod, i, name) ==
    \E j \in 1..Len(pod.containers[i].env) : pod.containers[i].env[j].name = name

\* the container at position i has a variable of that name and value
HasVarValue(pod, i, name, value) ==
    \E j \in 1..Len(pod.containers[i].env) :
        pod.containers[i].env[j].name = name /\ pod.containers[i].env[j].value = value

\* the pod does not switch environment injection off
EnvRequested(pod) ==
    "models.main-currents.news/inject-env" \in DOMAIN pod.annotations
    => pod.annotations["models.main-currents.news/inject-env"] # <<"f", "a", "l", "s", "e">>

\* the variables every Model gets, and the one naming the source type
CommonSuffixes ==
    { <<"_", "N", "A", "M", "E">>,
      <<"_", "M", "O", "U", "N", "T", "_", "P", "A", "T", "H">>,
      <<"_", "V", "E", "R", "S", "I", "O", "N">>,
      <<"_", "S", "O", "U", "R", "C", "E", "_", "T", "Y", "P", "E">> }

\* the target container has for n the variable <PREFIX>_SOURCE_TYPE and the
\* variable identifying the source: _REPO_ID, _BUCKET or _URL with the value of
\* the source field, for a version-control source a variable of the prefix
\* that is none of the common ones
SourceVarsPresent(pod, t, n) ==
    LET prefix == ExpectedPrefix(n)
        source == models[n].spec.source
    IN  /\ HasVar(pod, t, prefix \o <<"_", "S", "O", "U", "R", "C", "E", "_", "T", "Y", "P", "E">>)
        /\ "huggingFace" \in source
           => HasVarValue(pod, t, prefix \o <<"_", "R", "E", "P", "O", "_", "I", "D">>, <<"o", "/", "r">>)
        /\ "s3" \in source
           => HasVarValue(pod, t, prefix \o <<"_", "B", "U", "C", "K", "E", "T">>, <<"b", "k", "t">>)
        /\ "url" \in source
           => HasVarValue(pod, t, prefix \o <<"_", "U", "R", "L">>,
                          <<"h", "t", "t", "p", ":", "/", "/", "u">>)
        /\ "git" \in source
           => \E j \in 1..Len(pod.containers[t].env) :
                 /\ HasPrefixAt(pod.containers[t].env[j].name, 1, prefix)
                 /\ \A suffix \in CommonSuffixes : pod.containers[t].env[j].name # prefix \o suffix

\* C14: in a patched answer to a request that leaves environment injection
\* on, the target container has, for every named Model with exactly one
\* source variant, <PREFIX>_SOURCE_TYPE and the variable identifying the
\* source, and <PREFIX>_VERSION exactly when the Model's version is set.
C14_SourceVariables ==
    LET pod   == resp.request.pod
        names == RequestedNames(pod)
    IN  (Answered /\ Proceeds(resp.request) /\ resp.patched /\ EnvRequested(pod))
        => \A k \in 1..Len(names) :
              Cardinality(models[names[k]].spec.source) = 1
              => /\ SourceVarsPresent(resp.pod, TargetIndex(pod), names[k])
                 /\ HasVar(resp.pod, TargetIndex(pod),
                           ExpectedPrefix(names[k]) \o <<"_", "V", "E", "R", "S", "I", "O", "N">>)
                    <=> models[names[k]].spec.version # <<>>

\* the pod has a volume model-<n> bound to the storage claim of n
VolumeBound(pod, n) ==
    \E i \in 1..Len(pod.volumes) :
        /\ pod.volumes[i].name = ExpectedVolumeName(n)
        /\ pod.volumes[i].claimName = ExpectedVolumeName(n)

\* C15: a request without the marker label whose inject annotation names at
\* least one Model is answered with a denial or an error, or with an allow
\* whose pod has, for every named Model, a volume bound to the Model's storage
\* claim and a mount of that volume on the target container.
C15_InjectionNeverDropped ==
    LET pod   == resp.request.pod
        names == RequestedNames(pod)
    IN  (Answered /\ Proceeds(resp.request) /\ names # <<>> /\ resp.allowed)
        => \A k \in 1..Len(names) :
              /\ VolumeBound(resp.pod, names[k])
              /\ MountedOn(resp.pod, TargetIndex(pod), names[k])

----------------------------------------------------------------------------
(* Properties of the reconciler, continued *)

\* the step is a pass for n that did not find the Model, answered without a
\* fault
MissingModelPass(n) ==
    /\ res'.name = n
    /\ ~res'.found
    /\ res'.faults = {}

\* C16: a pass for a Model that does not exist, never created or deleted after
\* earlier passes, returns no error and no requeue, and leaves the Models, the
\* storage claims and the Jobs as they were.
C16_MissingModelPassIsSilent ==
    [][ \A n \in ModelNames :
          MissingModelPass(n)
          => /\ n \notin DOMAIN models
             /\ res'.err = ""
             /\ res'.requeue = 0
             /\ ~res'.wrote
             /\ res'.created = {}
             /\ models' = models
             /\ pvcs' = pvcs
             /\ jobs' = jobs ]_vars

\* a pass ran for a Model deleted after the pass that made its claim and Job
C16_Witness ==
    /\ res.name = N1
    /\ ~res.found
    /\ res.faults = {}
    /\ N1 \notin DOMAIN models
    /\ PVCName(N1) \in DOMAIN pvcs
    /\ JobName(N1) \in DOMAIN jobs
    /\ res.err = ""
    /\ res.requeue = 0

\* the pass left n in phase Pending with a message of that format, the
\* Pending requeue interval and no error
HeldPending(n, fmt) ==
    /\ models[n].status.phase = "Pending"
    /\ models[n].status.message.fmt = fmt
    /\ Len(models[n].status.message.args) = 1
    /\ res.wrote
    /\ res.err = ""
    /\ res.requeue = 10

\* C17: a Pending pass whose creation of the storage claim is rejected (the
\* platform refuses it, or answers AlreadyExists after a stale lookup) leaves
\* the Model in Pending with the failure in the status message, returns the
\* Pending interval and no error, and creates nothing: the Job is neither
\* built (a Model without source is not moved to Failed) nor created.  A pass
\* whose creation of the Job is rejected does the same, after the claim.  The
\* rejection is the one fault of the pass: the status update is accepted.
C17_CreationRejected ==
    \A n \in ModelNames :
        /\ ( PassIn(n, ModelPhasePending) /\ res.faults \in {{"CreatePVC"}, {"StalePVC"}} )
           => /\ HeldPending(n, "Failed to create PVC: %v")
              /\ res.created = {}
        /\ ( /\ PassIn(n, ModelPhasePending)
             /\ res.faults \in {{"CreateJob"}, {"StaleJob"}}
             /\ models[n].spec.source # {} )
           => /\ HeldPending(n, "Failed to create Job: %v")
              /\ "job" \notin res.created
              /\ PVCName(n) \in DOMAIN pvcs

\* the claim of a Model without source was refused: the pass ended before the
\* Job was built
C17_Witness ==
    /\ PassIn(N1, ModelPhasePending)
    /\ res.faults = {"CreatePVC"}
    /\ models[N1].spec.source = {}
    /\ models[N1].status.phase = ModelPhasePending
    /\ models[N1].status.message = Sprintf("Failed to create PVC: %v", <<"Forbidden">>)
    /\ PVCName(N1) \notin DOMAIN pvcs
    /\ JobName(N1) \notin DOMAIN jobs

\* C18: a Downloading pass that finds the Job with no success counted and no
\* failure condition leaves the phase Downloading and returns the Downloading
\* interval and no error, whatever the failure and active counters are; a
\* further pass on the state it leaves changes nothing and returns the same.
C18_DownloadingPassIdempotent ==
    \A n \in ModelNames :
        ( /\ PassIn(n, ModelPhaseDownloading)
          /\ NoFault
          /\ JobName(n) \in DOMAIN jobs
          /\ jobs[JobName(n)].status.succeeded = 0
          /\ ~HasFailureCondition(n) )
        => /\ models[n].status.phase = "Downloading"
           /\ res.requeue = 15
           /\ res.err = ""
           /\ Reconcile(World, n, {}).w = World
           /\ Reconcile(World, n, {}).r.requeue = 15
           /\ Reconcile(World, n, {}).r.err = ""

\* the Job counts a failed and an active pod and has no condition yet
C18_Witness ==
    /\ PassIn(N1, ModelPhaseDownloading)
    /\ NoFault
    /\ JobName(N1) \in DOMAIN jobs
    /\ jobs[JobName(N1)].status.succeeded = 0
    /\ jobs[JobName(N1)].status.failed > 0
    /\ jobs[JobName(N1)].status.active > 0
    /\ jobs[JobName(N1)].status.conditions = <<>>
    /\ models[N1].status.phase = ModelPhaseDownloading
    /\ ~res.wrote
    /\ res.requeue = 15

\* the object carries a controller reference to the Model n of the current
\* state
OwnedBy(object, n) ==
    /\ object.owner.name = n
    /\ object.owner.uid = models[n].uid

\* C19: for every Model that a Pending pass has moved on, the storage claim
\* and the Job that exist under its derived names carry an owner reference to
\* it, also when they were there before that pass.
C19_OwnedByModel ==
    \A n \in DOMAIN models :
        models[n].status.phase \in {"Downloading", "Ready"}
        => /\ PVCName(n) \in DOMAIN pvcs => OwnedBy(pvcs[PVCName(n)], n)
           /\ JobName(n) \in DOMAIN jobs => OwnedBy(jobs[JobName(n)], n)

\* C20: with passes scheduled fairly, no deletion and no fault, a Model with a
\* valid source whose Job has a success counted is eventually Ready, and one
\* whose Job has no success counted and carries a failure condition is
\* eventually Failed.
C20_EventuallySettles ==
    \A n \in ModelNames :
        /\ ( /\ n \in DOMAIN models
             /\ JobName(n) \in DOMAIN jobs
             /\ jobs[JobName(n)].status.succeeded > 0 )
           ~> ( n \in DOMAIN models /\ models[n].status.phase = "Ready" )
        /\ ( /\ n \in DOMAIN models
             /\ JobName(n) \in DOMAIN jobs
             /\ jobs[JobName(n)].status.succeeded = 0
             /\ HasFailureCondition(n) )
           ~> ( n \in DOMAIN models /\ models[n].status.phase = "Failed" )

----------------------------------------------------------------------------
(* What the core writes *)

\* the step is a reconcile pass
PassStep == res'.name # <<>>
\* the step is an answer of the mutator
AdmitStep == resp'.code # 0

\* every object of the map is in the map of the next state, as it was
Kept(objects, objectsNext) ==
    \A k \in DOMAIN objects : k \in DOMAIN objectsNext /\ objectsNext[k] = objects[k]

\* C21: a reconcile pass deletes no Model, storage claim or Job, leaves every
\* storage claim and Job it found as it was, and changes nothing of a Model
\* but its status; an answer of the mutator leaves Models, storage claims and
\* Jobs unchanged.
C21_CoreWritesOnlyStatus ==
    [][ /\ PassStep
           => /\ DOMAIN models' = DOMAIN models
              /\ \A n \in DOMAIN models :
                    /\ models'[n].spec = models[n].spec
                    /\ models'[n].uid = models[n].uid
                    /\ models'[n].generation = models[n].generation
              /\ Kept(pvcs, pvcs')
              /\ Kept(jobs, jobs')
        /\ AdmitStep
           => /\ models' = models
              /\ pvcs' = pvcs
              /\ jobs' = jobs ]_vars

\* a pass found a Failed Model with its Job, and left both; the other Model
\* is Ready
C21_Witness ==
    /\ PassIn(N1, ModelPhaseFailed)
    /\ JobName(N1) \in DOMAIN jobs
    /\ models[N1].status.phase = ModelPhaseFailed
    /\ N2 \in DOMAIN models
    /\ models[N2].status.phase = ModelPhaseReady

----------------------------------------------------------------------------
(* Properties of the derived names and of the options *)

\* MODEL_ + the name in upper case with _ for every -, written out
ExpectedEnvPrefix(n) ==
    CASE n = <<"m", "1">> -> <<"M", "O", "D", "E", "L", "_", "M", "1">>
      [] n = <<"a", "-", "b">> -> <<"M", "O", "D", "E", "L", "_", "A", "_", "B">>
      [] n = <<"l", "-", "3", "-", "8", "b">> -> <<"M", "O", "D", "E", "L", "_", "L", "_", "3", "_", "8", "B">>

\* the answer is a patch for a pod with one container asking for the one
\* Model n
PatchedFor(n) ==
    /\ Answered
    /\ resp.patched
    /\ Len(resp.request.pod.containers) = 1
    /\ RequestedNames(resp.request.pod) = <<n>>

\* the pod asks for no mount path of its own
NoOverride(pod) ==
    "models.main-currents.news/mount-path" \notin DOMAIN pod.annotations

\* C22: for a Model the reconciler has moved on, the storage claim is named
\* model-<name>, the Job model-download-<name>, the Job mounts the claim
\* model-<name> and status.pvcName is model-<name>; a patched pod asking for
\* the Model has the volume model-<name> bound to the claim model-<name>, the
\* mount at /models/<name> when it asks for no path, and variables whose
\* names begin with MODEL_<NAME>, the name in upper case with _ for every -.
C22_DerivedNames ==
    \A n \in NamingNames :
        /\ ( n \in DOMAIN models /\ models[n].status.phase \in {"Downloading", "Ready"} )
           => /\ (<<"m", "o", "d", "e", "l", "-">> \o n) \in DOMAIN pvcs
              /\ (<<"m", "o", "d", "e", "l", "-", "d", "o", "w", "n", "l", "o", "a", "d", "-">> \o n) \in DOMAIN jobs
              /\ jobs[<<"m", "o", "d", "e", "l", "-", "d", "o", "w", "n", "l", "o", "a", "d", "-">> \o n].claimName
                    = <<"m", "o", "d", "e", "l", "-">> \o n
              /\ models[n].status.pvcName = <<"m", "o", "d", "e", "l", "-">> \o n
              /\ Cardinality(DOMAIN pvcs) <= Cardinality(DOMAIN models)
              /\ Cardinality(DOMAIN jobs) <= Cardinality(DOMAIN models)
        /\ PatchedFor(n)
           => /\ resp.pod.volumes = << [ name |-> <<"m", "o", "d", "e", "l", "-">> \o n,
                                         claimName |-> <<"m", "o", "d", "e", "l", "-">> \o n,
                                         readOnly |-> TRUE ] >>
              /\ Len(resp.pod.containers[1].volumeMounts) = 1
              /\ resp.pod.containers[1].volumeMounts[1].name = <<"m", "o", "d", "e", "l", "-">> \o n
              /\ NoOverride(resp.request.pod)
                 => resp.pod.containers[1].volumeMounts[1].mountPath
                      = <<"/", "m", "o", "d", "e", "l", "s", "/">> \o n
              /\ EnvRequested(resp.request.pod)
                 => /\ Len(resp.pod.containers[1].env) >= 2
                    /\ resp.pod.containers[1].env[1].name
                         = ExpectedEnvPrefix(n) \o <<"_", "N", "A", "M", "E">>
                    /\ \A i \in 1..Len(resp.pod.containers[1].env) :
                          SubSeq(resp.pod.containers[1].env[i].name, 1, Len(ExpectedEnvPrefix(n)) + 1)
                            = ExpectedEnvPrefix(n) \o <<"_">>

\* a pod asking for the Model l-3-8b was patched
C22_Witness ==
    /\ PatchedFor(N3)
    /\ NoOverride(resp.request.pod)
    /\ EnvRequested(resp.request.pod)
    /\ models[N3].status.pvcName = <<"m", "o", "d", "e", "l", "-", "l", "-", "3", "-", "8", "b">>
    /\ resp.pod.containers[1].env[1].name = <<"M", "O", "D", "E", "L", "_", "L", "_", "3", "_", "8", "B", "_", "N", "A", "M", "E">>

\* the path the claim gives for the override of the pod and the Model n: the
\* default without override (or with an empty one), the placeholder replaced,
\* the override itself when it ends with n, else the override less one
\* trailing slash, a slash and n
ExpectedResolved(pod, n) ==
    LET override == IF NoOverride(pod) THEN <<>>
                    ELSE pod.annotations["models.main-currents.news/mount-path"]
    IN  CASE override = <<>> -> <<"/", "m", "o", "d", "e", "l", "s", "/">> \o n
          [] override = <<"/">> -> <<"/">> \o n
          [] override = <<"/", "d">> -> <<"/", "d", "/">> \o n
          [] override = <<"/", "d", "/">> -> <<"/", "d", "/">> \o n
          [] override = <<"/", "d", "/", "/">> -> <<"/", "d", "/", "/">> \o n
          [] override = <<"/", "d", "/", "{", "n", "a", "m", "e", "}">> -> <<"/", "d", "/">> \o n
          [] override = <<"/", "{", "n", "a", "m", "e", "}", "/", "{", "n", "a", "m", "e", "}">> -> <<"/">> \o n \o <<"/">> \o n
          [] override = <<"/", "x">> \o n -> <<"/", "x">> \o n

\* C23: the mount of a patched pod asking for the Model n, and the variable
\* <PREFIX>_MOUNT_PATH, carry the resolved path: /models/n without override,
\* the override with every {name} replaced by n, the override itself when it
\* ends with n, else the override less one trailing slash, then / and n.
C23_ResolvedMountPath ==
    \A n \in NamingNames :
        PatchedFor(n)
        => /\ resp.pod.containers[1].volumeMounts[1].mountPath
                = ExpectedResolved(resp.request.pod, n)
           /\ EnvRequested(resp.request.pod)
              => HasVarValue(resp.pod, 1,
                             ExpectedEnvPrefix(n) \o <<"_", "M", "O", "U", "N", "T", "_", "P", "A", "T", "H">>,
                             ExpectedResolved(resp.request.pod, n))

\* the override /d// for the Model a-b gave /d//a-b
C23_Witness ==
    /\ PatchedFor(N2)
    /\ ~NoOverride(resp.request.pod)
    /\ resp.request.pod.annotations["models.main-currents.news/mount-path"] = <<"/", "d", "/", "/">>
    /\ resp.pod.containers[1].volumeMounts[1].mountPath = <<"/", "d", "/", "/", "a", "-", "b">>

\* the value of the toggle annotation of the pod leaves the toggle on
ToggleOn(pod, key) ==
    key \in DOMAIN pod.annotations => pod.annotations[key] # <<"f", "a", "l", "s", "e">>

\* C24: the mount of a patched pod is read-only unless the read-only
\* annotation is the literal false, and the container gets variables unless
\* the inject-env annotation is the literal false; with inject-env off the
\* pod still gets its volume and its mount, and no variable.
C24_OptionToggles ==
    \A n \in NamingNames :
        PatchedFor(n)
        => /\ resp.pod.containers[1].volumeMounts[1].readOnly
                = ToggleOn(resp.request.pod, "models.main-currents.news/read-only")
           /\ Len(resp.pod.volumes) = 1
           /\ Len(resp.pod.containers[1].volumeMounts) = 1
           /\ IF ToggleOn(resp.request.pod, "models.main-currents.news/inject-env")
              THEN Len(resp.pod.containers[1].env) >= 2
              ELSE resp.pod.containers[1].env = <<>>

\* a pod with inject-env: false was patched, another value leaves it on
C24_Witness ==
    /\ PatchedFor(N1)
    /\ "models.main-currents.news/inject-env" \in DOMAIN resp.request.pod.annotations
    /\ resp.request.pod.annotations["models.main-currents.news/inject-env"] = <<"f", "a", "l", "s", "e">>
    /\ Len(resp.pod.volumes) = 1
    /\ Len(resp.pod.containers[1].volumeMounts) = 1
    /\ resp.pod.containers[1].env = <<>>

----------------------------------------------------------------------------
(* Properties of the reconciler: recovery, message and condition *)

\* the last step was a fault-free Downloading pass on n that found no Job
MissedJob(n) ==
    /\ PassIn(n, ModelPhaseDownloading)
    /\ NoFault
    /\ JobName(n) \notin DOMAIN jobs

\* C26: a Downloading pass that does not find the Job leaves the Model in
\* Pending with the message "Job not found, recreating", and the pass that
\* follows it, a Pending pass, creates the Job again and leaves the Model in
\* Downloading (passes answered without faults).
C26_MissingJobRecreated ==
    [][ \A n \in ModelNames :
          /\ MissedJob(n)' =>
                /\ models'[n].status.phase = "Pending"
                /\ models'[n].status.message = Msg("Job not found, recreating")
                /\ res'.err = ""
                /\ res'.requeue = 10
          /\ (MissedJob(n) /\ res'.name = n /\ res'.faults = {}) =>
                /\ res'.phase = "Pending"
                /\ "job" \in res'.created
                /\ JobName(n) \in DOMAIN jobs'
                /\ jobs'[JobName(n)].status.succeeded = 0
                /\ PVCName(n) \in DOMAIN pvcs'
                /\ models'[n].status.phase = "Downloading"
                /\ res'.err = "" ]_vars

\* the Pending pass after the Downloading pass that missed the Job
C26_Witness ==
    /\ PassIn(N1, ModelPhasePending)
    /\ NoFault
    /\ res.status0.message = Msg("Job not found, recreating")
    /\ res.created = {"job"}
    /\ models[N1].status.phase = ModelPhaseDownloading

\* C27: a Downloading pass that ends without error and finds the Job running
\* (no success counted, no failure condition) with N > 0 active pods leaves
\* the status message telling the active count N.
C27_MessageTellsActiveCount ==
    \A n \in ModelNames :
        ( /\ PassIn(n, ModelPhaseDownloading)
          /\ NoFault
          /\ res.err = ""
          /\ JobName(n) \in DOMAIN jobs
          /\ jobs[JobName(n)].status.succeeded = 0
          /\ ~HasFailureCondition(n)
          /\ jobs[JobName(n)].status.active > 0 )
        => /\ models[n].status.message.fmt = "Download in progress (active pods: %d)"
           /\ models[n].status.message.args = <<jobs[JobName(n)].status.active>>

\* C28: a Model has at most one condition of type Ready, and has it once its
\* phase is set; its status is True exactly in phase Ready, and its reason is
\* DownloadComplete in Ready, DownloadFailed in Failed and InProgress in
\* Pending and Downloading.
C28_ReadyConditionFollowsPhase ==
    \A n \in DOMAIN models :
        LET conditions == models[n].status.conditions
            ready == {i \in 1..Len(conditions) : conditions[i].type = "Ready"}
        IN  /\ Cardinality(ready) <= 1
            /\ models[n].status.phase # "" => ready # {}
            /\ \A i \in ready :
                  /\ conditions[i].status \in {"True", "False"}
                  /\ conditions[i].status = "True" <=> models[n].status.phase = "Ready"
                  /\ conditions[i].reason =
                        CASE models[n].status.phase = "Ready" -> "DownloadComplete"
                          [] models[n].status.phase = "Failed" -> "DownloadFailed"
                          [] models[n].status.phase \in {"Pending", "Downloading"} -> "InProgress"
                          [] OTHER -> "none"

\* a Model that was Ready is Failed: its condition went from True to False
C28_Witness ==
    /\ PassIn(N1, ModelPhaseDownloading)
    /\ models[N1].status.phase = ModelPhaseFailed
    /\ models[N1].status.progress = 100
    /\ Len(models[N1].status.conditions) = 1
    /\ models[N1].status.conditions[1].reason = "DownloadFailed"

----------------------------------------------------------------------------
(* Properties of the Job descriptor and of the status writes *)

\* the script of the container of the Job a pass created for n
CreatedScript(n) == jobs[JobName(n)].args[1]

\* C25: the Job a pass builds and creates from a Model with one source
\* variant runs sh -c on one script, and the script contains verbatim the
\* repository id (huggingFace), the bucket and the key (s3), the URL (url),
\* or the repository URL and the ref of the spec (git).
C25_ScriptNamesTheSource ==
    \A n \in ModelNames :
        ( /\ res.name = n
          /\ "job" \in res.created
          /\ Cardinality(models[n].spec.source) = 1 )
        => /\ jobs[JobName(n)].command = <<"sh", "-c">>
           /\ Len(jobs[JobName(n)].args) = 1
           /\ "huggingFace" \in models[n].spec.source
                => Contains(CreatedScript(n), <<"o", "/", "r">>)
           /\ "s3" \in models[n].spec.source
                => /\ Contains(CreatedScript(n), <<"b", "k", "t">>)
                   /\ Contains(CreatedScript(n), <<"k", "/", "f">>)
           /\ "url" \in models[n].spec.source
                => Contains(CreatedScript(n), <<"h", "t", "t", "p", ":", "/", "/", "u">>)
           /\ "git" \in models[n].spec.source
                => /\ Contains(CreatedScript(n), <<"g", "i", "t", ":", "r">>)
                   /\ Contains(CreatedScript(n), models[n].spec.ref)
                   /\ models[n].spec.ref # <<>>
                        => Contains(CreatedScript(n),
                                    <<" --branch ">> \o models[n].spec.ref \o <<" ">>)

\* a Job created from a version-control source whose ref was set by an update
C25_Witness ==
    /\ res.name = N1
    /\ "job" \in res.created
    /\ models[N1].spec.source = {"git"}
    /\ models[N1].spec.ref = <<"v", "2">>
    /\ models[N1].generation = 2
    /\ N1 \in DOMAIN models

\* the conditions of type Ready among the conditions
ReadyIn(conditions) ==
    {conditions[i] : i \in {j \in 1..Len(conditions) : conditions[j].type = "Ready"}}

\* C29: the lastTransitionTime of the Ready condition of a Model changes only
\* in a pass that writes the status and changes the condition's status
\* (True/False); a step that keeps the status keeps the time, and a changed
\* status carries the time of the write.
C29_TransitionTimeOnlyOnChange ==
    [][ \A n \in (DOMAIN models) \cap (DOMAIN models') :
          \A before \in ReadyIn(models[n].status.conditions) :
            \A after \in ReadyIn(models'[n].status.conditions) :
              /\ after.lastTransitionTime # before.lastTransitionTime
                    => /\ res'.name = n
                       /\ res'.wrote
                       /\ after.status # before.status
              /\ after.status = before.status
                    => after.lastTransitionTime = before.lastTransitionTime
              /\ after.status # before.status
                    => after.lastTransitionTime = now' ]_vars

\* a Downloading pass wrote Failed after the clock moved: the condition was
\* False and is False, and its time is the old one
C29_Witness ==
    /\ PassIn(N1, ModelPhaseDownloading)
    /\ res.wrote
    /\ models[N1].status.phase = ModelPhaseFailed
    /\ models[N1].status.conditions[1].status = "False"
    /\ res.status0.conditions[1].status = "False"
    /\ models[N1].status.conditions[1].lastTransitionTime < now

\* C30: a pass that wrote the status of a Model, from updateStatusWithProgress
\* or from the write of reconcileDownloading, left status.pvcName the derived
\* claim name and status.observedGeneration the generation of the Model.
C30_WritesRefreshNameAndGeneration ==
    \A n \in ModelNames :
        (res.name = n /\ res.found /\ res.wrote)
        => /\ models[n].status.pvcName = <<"m", "o", "d", "e", "l", "-">> \o n
           /\ models[n].status.observedGeneration = models[n].generation

\* the write of reconcileDownloading: the status came without the claim name
\* and with the generation of before the update
C30_Witness ==
    /\ PassIn(N1, ModelPhaseDownloading)
    /\ res.wrote
    /\ res.status0.pvcName = <<>>
    /\ res.status0.observedGeneration = 1
    /\ models[N1].generation = 2
    /\ models[N1].status.phase = ModelPhaseDownloading

----------------------------------------------------------------------------
(* Properties of the pass result and of the phase *)

\* C31: a pass on an existing Model that returns no error returns the requeue
\* delay of the phase it leaves the Model in: 10 s for Pending, 15 s for
\* Downloading, 60 s for Failed, 300 s for Ready; the delay is positive, and
\* the delays are ordered Pending, Downloading < Failed < Ready.
C31_RequeueByPhase ==
    \A n \in ModelNames :
        (res.name = n /\ res.found /\ res.err = "")
        => /\ res.requeue > 0
           /\ models[n].status.phase \in {"Pending", "Downloading", "Failed", "Ready"}
           /\ models[n].status.phase = "Pending" => res.requeue = 10
           /\ models[n].status.phase = "Downloading" => res.requeue = 15
           /\ models[n].status.phase = "Failed" => res.requeue = 60
           /\ models[n].status.phase = "Ready" => res.requeue = 300
           /\ 10 < 60 /\ 15 < 60 /\ 60 < 300

\* a pass wrote Failed and asks to come back after a minute
C31_Witness ==
    /\ PassIn(N1, ModelPhaseDownloading)
    /\ res.err = ""
    /\ res.wrote
    /\ models[N1].status.phase = ModelPhaseFailed
    /\ res.requeue = 60

\* C32: a pass whose read of the Model, of the claim or of the Job fails with
\* an error other than NotFound, or whose status update is rejected, returns
\* that error and no requeue delay, creates nothing after the failure, and
\* leaves the status of the Model as it found it.
C32_ErrorsPropagate ==
    \A n \in ModelNames :
        res.name = n
        => /\ "GetModel" \in res.faults => res.err = "GetModel"
           /\ ("GetPVC" \in res.faults /\ res.found) => res.err = "GetPVC"
           /\ ( /\ "GetJob" \in res.faults
                /\ res.found
                /\ res.phase = "Pending" => models[n].spec.source # {} )
              => res.err = "GetJob"
           /\ ("Update" \in res.faults /\ res.found /\ res.phase = "Pending")
              => res.err = "UpdateStatus"
           /\ res.err # ""
              => /\ res.err \in {"GetModel", "GetPVC", "GetJob", "UpdateStatus"}
                 /\ res.requeue = 0
                 /\ ~res.wrote
                 /\ res.found => models[n].status = res.status0
                 /\ res.err \in {"GetModel", "GetPVC"} => res.created = {}
                 /\ res.err = "GetJob" => "job" \notin res.created

\* the update of a first pass was rejected after the claim and the Job were
\* created: the status is still unset
C32_Witness ==
    /\ PassIn(N1, ModelPhasePending)
    /\ res.err = "UpdateStatus"
    /\ res.created = {"pvc", "job"}
    /\ res.requeue = 0
    /\ models[N1].status.phase = ""

\* the phase a pass on a Model of this status starts in: Reconcile reads an
\* unset phase as Pending
StartPhase(status) == IF status.phase = "" THEN "Pending" ELSE status.phase

\* the edges of the phase graph
PhaseEdges ==
    { <<"Pending", "Downloading">>, <<"Pending", "Failed">>,
      <<"Downloading", "Ready">>, <<"Downloading", "Failed">>, <<"Downloading", "Pending">>,
      <<"Ready", "Pending">>, <<"Failed", "Pending">> }

\* C35: the phase of a Model (an unset phase counting as Pending, the phase
\* its pass starts in) changes only in a pass on that Model and only along
\* Pending -> Downloading, Pending -> Failed, Downloading -> Ready,
\* Downloading -> Failed, Downloading -> Pending, Ready -> Pending and
\* Failed -> Pending; a pass that creates a claim or a Job started in Pending.
C35_PhaseEdges ==
    [][ /\ \A n \in (DOMAIN models) \cap (DOMAIN models') :
              StartPhase(models'[n].status) # StartPhase(models[n].status)
              => /\ res'.name = n
                 /\ res'.wrote
                 /\ <<StartPhase(models[n].status), StartPhase(models'[n].status)>> \in PhaseEdges
        /\ \A n \in DOMAIN models' :
              /\ models'[n].status.phase = "Ready" /\ n \in DOMAIN models
                    => StartPhase(models[n].status) \in {"Downloading", "Ready"}
              /\ models'[n].status.phase = "Ready" => n \in DOMAIN models
        /\ (pvcs' # pvcs \/ jobs' # jobs) /\ PassStep
              => /\ res'.created # {}
                 /\ res'.phase = "Pending"
        /\ res'.created # {}
              => /\ res'.phase = "Pending"
                 /\ res'.name \in DOMAIN models
                 /\ StartPhase(models[res'.name].status) = "Pending" ]_vars

\* a Ready Model lost its claim and the pass put it back to Pending
C35_Witness ==
    /\ PassIn(N1, ModelPhaseReady)
    /\ NoFault
    /\ res.wrote
    /\ models[N1].status.phase = ModelPhasePending

\* C39: the progress of a Model is 0 or 100, no step lowers it, and it is 100
\* in phase Ready; a Model that was Ready keeps 100 through Pending,
\* Downloading and Failed.
C39_ProgressMonotone ==
    [][ \A n \in DOMAIN models' :
          /\ models'[n].status.progress \in {0, 100}
          /\ models'[n].status.phase = "Ready" => models'[n].status.progress = 100
          /\ n \in DOMAIN models
                => /\ models'[n].status.progress >= models[n].status.progress
                   /\ models[n].status.phase = "Ready" => models'[n].status.progress = 100 ]_vars

\* a Model that was Ready is Failed, with progress 100
C39_Witness ==
    /\ PassIn(N1, ModelPhaseDownloading)
    /\ res.status0.progress = 100
    /\ models[N1].status.phase = ModelPhaseFailed
    /\ models[N1].status.progress = 100

----------------------------------------------------------------------------
(* Properties of spec updates *)

\* the world with the spec of Model n replaced and its generation counted up
Respecified(n, source, details) ==
    [World EXCEPT !.models[n].spec = [@ EXCEPT !.source = source,
                                               !.revision = details.revision,
                                               !.ref = details.ref,
                                               !.include = details.include],
                  !.models[n].generation = @ + 1]

\* the pass on n does to the world w what it does to the world v, as far as
\* phase, claims, Jobs and creations go
SameWork(n, w, v) ==
    LET a == Reconcile(w, n, {})
        b == Reconcile(v, n, {})
    IN  /\ a.w.models[n].status.phase = b.w.models[n].status.phase
        /\ a.w.pvcs = b.w.pvcs
        /\ a.w.jobs = b.w.jobs
        /\ a.r.created = {} /\ b.r.created = {}
        /\ a.r.wrote = b.r.wrote
        /\ a.r.requeue = b.r.requeue

\* C33: no pass changes or replaces a claim or a Job that exists; a pass that
\* starts in Downloading, Ready or Failed creates nothing; an update of the
\* spec leaves status, claims and Jobs alone; and in Downloading, Ready and
\* Failed the pass on a Model does the same (phase, claims, Jobs, creations)
\* whatever spec and generation the Model has been given.
C33_SpecChangeIgnored ==
    [][ /\ PassStep
          => /\ Kept(pvcs, pvcs')
             /\ Kept(jobs, jobs')
             /\ res'.phase \in {"Downloading", "Ready", "Failed"}
                   => res'.created = {} /\ pvcs' = pvcs /\ jobs' = jobs
        /\ \A n \in (DOMAIN models) \cap (DOMAIN models') :
             models'[n].spec # models[n].spec
             => /\ models'[n].generation > models[n].generation
                /\ models'[n].status = models[n].status
                /\ pvcs' = pvcs /\ jobs' = jobs
        /\ \A n \in DOMAIN models :
             models[n].status.phase \in {"Downloading", "Ready", "Failed"}
             => \A source \in SingleSources, details \in SpecDetails :
                    SameWork(n, World, Respecified(n, source, details)) ]_vars

\* a pass on a Ready Model whose spec was updated after the status was written
\* changed nothing
C33_Witness ==
    /\ PassIn(N1, ModelPhaseReady)
    /\ NoFault
    /\ models[N1].generation = 2
    /\ models[N1].status.observedGeneration = 1
    /\ models[N1].status.phase = ModelPhaseReady
    /\ ~res.wrote
    /\ res.created = {}

----------------------------------------------------------------------------
(* Properties of two Models side by side, and of the recovery of a claim *)

\* the part of the map under the key, if it is there
Only(objects, key) == [k \in (DOMAIN objects) \cap {key} |-> objects[k]]

\* the world with nothing in it but Model n, its claim and its Job
Alone(n) ==
    [ models |-> Only(models, n),
      pvcs |-> Only(pvcs, <<"m", "o", "d", "e", "l", "-">> \o n),
      jobs |-> Only(jobs, <<"m", "o", "d", "e", "l", "-", "d", "o", "w", "n", "l", "o", "a", "d", "-">> \o n) ]

\* C34: the claim names and the Job names of two Models differ; a pass for one
\* Model leaves the other Model, its claim and its Job as they are; and the
\* pass does to its Model, claim and Job what it does when nothing else is
\* in the namespace, so that interleaving passes of distinct Models gives each
\* Model the run it has alone.
C34_ModelsDoNotInterfere ==
    [][ \A n \in ModelNames :
          /\ \A m \in ModelNames \ {n} :
                /\ PVCName(n) # PVCName(m)
                /\ JobName(n) # JobName(m)
                /\ res'.name = n
                     => /\ Only(models', m) = Only(models, m)
                        /\ Only(pvcs', <<"m", "o", "d", "e", "l", "-">> \o m)
                             = Only(pvcs, <<"m", "o", "d", "e", "l", "-">> \o m)
                        /\ Only(jobs', <<"m", "o", "d", "e", "l", "-", "d", "o", "w", "n", "l", "o", "a", "d", "-">> \o m)
                             = Only(jobs, <<"m", "o", "d", "e", "l", "-", "d", "o", "w", "n", "l", "o", "a", "d", "-">> \o m)
          /\ res'.name = n
               => LET alone == Reconcile(Alone(n), n, res'.faults) IN
                  /\ alone.r = res'
                  /\ alone.w.models = Only(models', n)
                  /\ alone.w.pvcs = Only(pvcs', <<"m", "o", "d", "e", "l", "-">> \o n)
                  /\ alone.w.jobs = Only(jobs', <<"m", "o", "d", "e", "l", "-", "d", "o", "w", "n", "l", "o", "a", "d", "-">> \o n) ]_vars

\* a first pass for the second Model created its claim and Job while the
\* first Model was Ready with its own
C34_Witness ==
    /\ PassIn(N2, ModelPhasePending)
    /\ res.created = {"pvc", "job"}
    /\ N1 \in DOMAIN models
    /\ models[N1].status.phase = ModelPhaseReady
    /\ PVCName(N1) \in DOMAIN pvcs
    /\ JobName(N1) \in DOMAIN jobs

\* the claim of n is gone and its Job is there with a success counted
ClaimLostAfterSuccess(n) ==
    /\ n \in DOMAIN models
    /\ (<<"m", "o", "d", "e", "l", "-">> \o n) \notin DOMAIN pvcs
    /\ JobName(n) \in DOMAIN jobs
    /\ jobs[JobName(n)].status.succeeded > 0

\* C36: with the claim of a Model gone and its succeeded Job still there, a
\* pass that starts in Ready writes Pending and creates nothing; a pass that
\* starts in Pending creates the claim and no Job, leaves the old Job as it
\* is and writes Downloading; and a pass that starts in Downloading and finds
\* the old Job writes Ready on its success count (passes without faults).
C36_RecoveryCreatesOnlyTheClaim ==
    [][ \A n \in ModelNames :
          (res'.name = n /\ res'.faults = {} /\ n \in DOMAIN models)
          => /\ (ClaimLostAfterSuccess(n) /\ models[n].status.phase = "Ready")
                => /\ models'[n].status.phase = "Pending"
                   /\ res'.created = {}
                   /\ pvcs' = pvcs /\ jobs' = jobs
             /\ (ClaimLostAfterSuccess(n) /\ models[n].status.phase = "Pending")
                => /\ res'.created = {"pvc"}
                   /\ (<<"m", "o", "d", "e", "l", "-">> \o n) \in DOMAIN pvcs'
                   /\ jobs' = jobs
                   /\ models'[n].status.phase = "Downloading"
             /\ ( /\ models[n].status.phase = "Downloading"
                  /\ JobName(n) \in DOMAIN jobs
                  /\ jobs[JobName(n)].status.succeeded > 0 )
                => /\ models'[n].status.phase = "Ready"
                   /\ res'.created = {}
                   /\ pvcs' = pvcs /\ jobs' = jobs ]_vars

\* a Model that was Ready is Downloading again; its pass has just created the
\* claim, and the Job it found has its success from before the claim was there
C36_Witness ==
    /\ PassIn(N1, ModelPhasePending)
    /\ NoFault
    /\ res.status0.progress = 100
    /\ res.status0.message = Msg("PVC was deleted, recreating")
    /\ res.created = {"pvc"}
    /\ jobs[JobName(N1)].status.succeeded = 1
    /\ models[N1].status.phase = ModelPhaseDownloading

----------------------------------------------------------------------------
(* Properties of a Model without a source *)

NoSource(n) == n \in DOMAIN models /\ models[n].spec.source = {}

\* C37: a fault-free pass on a Model with no source variant that starts in
\* Pending (or with the phase unset) creates the claim if it is not there,
\* creates no Job, and leaves phase Failed,
\* and one that starts in Failed creates nothing and writes Pending; the
\* Model is never Downloading or Ready; and as passes keep coming, Failed
\* leads to Pending and Pending leads to Failed, for ever.
C37_NoSourceAlternates ==
    /\ [][ \A n \in ModelNames :
              (NoSource(n) /\ res'.name = n /\ res'.faults = {})
              => /\ StartPhase(models[n].status) = "Pending"
                    => /\ models'[n].status.phase = "Failed"
                       /\ models'[n].status.message.fmt = "Failed to build download Job: %v"
                       /\ (<<"m", "o", "d", "e", "l", "-">> \o n) \in DOMAIN pvcs'
                       /\ res'.created = IF (<<"m", "o", "d", "e", "l", "-">> \o n) \in DOMAIN pvcs
                                         THEN {} ELSE {"pvc"}
                       /\ "job" \notin res'.created
                       /\ JobName(n) \notin DOMAIN jobs'
                 /\ models[n].status.phase = "Failed"
                    => /\ models'[n].status.phase = "Pending"
                       /\ models'[n].status.message = Msg("Retrying download")
                       /\ res'.created = {} ]_vars
    /\ [](\A n \in ModelNames :
             NoSource(n) => models[n].status.phase \in {"", "Pending", "Failed"})
    /\ \A n \in ModelNames :
          /\ (NoSource(n) /\ models[n].status.phase = "Failed")
                ~> (NoSource(n) /\ models[n].status.phase = "Pending")
          /\ (NoSource(n) /\ models[n].status.phase \in {"", "Pending"})
                ~> (NoSource(n) /\ models[n].status.phase = "Failed")

\* the Model without a source is Failed for the second time
C37_Witness ==
    /\ NoSource(N1)
    /\ PassIn(N1, ModelPhasePending)
    /\ NoFault
    /\ res.status0.message = Msg("Retrying download")
    /\ models[N1].status.phase = ModelPhaseFailed
    /\ JobName(N1) \notin DOMAIN jobs

----------------------------------------------------------------------------
(* Properties of the mutator next to a claim that is gone *)

\* the Models with nothing in their status but the phase
PhasesOnly ==
    [n \in DOMAIN models |->
        [models[n] EXCEPT !.status = [EmptyStatus EXCEPT !.phase = models[n].status.phase]]]

\* C38: the answer of the mutator is the answer it gives when the Models have
\* nothing in their status but the phase, whatever claims exist; so a plain
\* request for a Ready Model whose claim has been deleted, answered before
\* the next pass of the Model, is allowed and patched with a volume bound to
\* the claim model-<name>, which does not exist.
C38_GateReadsOnlyThePhase ==
    /\ Answered => Handle(PhasesOnly, resp.request) = resp
    /\ \A n \in ModelNames :
          (PlainRequestFor(n) /\ (<<"m", "o", "d", "e", "l", "-">> \o n) \notin DOMAIN pvcs)
          => /\ resp.allowed
             /\ resp.patched
             /\ VolumeBound(resp.pod, n)
             /\ MountedOn(resp.pod, 1, n)

\* a pod asking for the Ready Model was patched while the claim was gone
C38_Witness ==
    /\ PlainRequestFor(N1)
    /\ PVCName(N1) \notin DOMAIN pvcs
    /\ models[N1].status.phase = ModelPhaseReady
    /\ resp.patched
    /\ Len(resp.pod.volumes) = 1

----------------------------------------------------------------------------
(* Properties of the mount path variable *)

\* the name of the variable that tells where Model n is mounted
MountPathVarName(n) ==
    ExpectedPrefix(n) \o <<"_", "M", "O", "U", "N", "T", "_", "P", "A", "T", "H">>

\* the mount paths of the mounts of the volume model-<n> on container i
MountPathsOf(pod, i, n) ==
    { pod.containers[i].volumeMounts[j].mountPath :
        j \in { k \in 1..Len(pod.containers[i].volumeMounts) :
                  pod.containers[i].volumeMounts[k].name = ExpectedVolumeName(n) } }

\* the values of the variables of that name on container i
ValuesOf(pod, i, name) ==
    { pod.containers[i].env[j].value :
        j \in { k \in 1..Len(pod.containers[i].env) : pod.containers[i].env[k].name = name } }

\* C40: in a patched answer, for every named Model whose mount the mutator
\* inserted on the target container, the variable <PREFIX>_MOUNT_PATH, if the
\* pod did not bring one, is on the target container when variables are
\* wanted, and its value is the path of that mount; every other container
\* keeps the variables and the mounts it came with.
C40_MountPathVariableMatchesMount ==
    LET pod    == resp.request.pod
        names  == RequestedNames(pod)
        target == TargetIndex(pod)
    IN  (Answered /\ Proceeds(resp.request) /\ resp.patched)
        => /\ \A i \in 1..Len(resp.pod.containers) :
                 i # target
                 => /\ resp.pod.containers[i].env = pod.containers[i].env
                    /\ resp.pod.containers[i].volumeMounts = pod.containers[i].volumeMounts
           /\ \A k \in 1..Len(names) :
                 ( /\ ~MountedOn(pod, target, names[k])
                   /\ MountedOn(resp.pod, target, names[k])
                   /\ ~HasVar(pod, target, MountPathVarName(names[k])) )
                 => /\ EnvRequested(pod)
                       => ValuesOf(resp.pod, target, MountPathVarName(names[k]))
                            = MountPathsOf(resp.pod, target, names[k])
                    /\ ~EnvRequested(pod)
                       => ValuesOf(resp.pod, target, MountPathVarName(names[k])) = {}
                    /\ Cardinality(MountPathsOf(resp.pod, target, names[k])) = 1

\* a pod with two containers asked for the Model on its second container and
\* got mount and variable there
C40_Witness ==
    /\ Answered
    /\ resp.patched
    /\ Len(resp.request.pod.containers) = 2
    /\ TargetIndex(resp.request.pod) = 2
    /\ RequestedNames(resp.request.pod) = <<N1>>
    /\ MountPathsOf(resp.pod, 2, N1) = {<<"/", "m", "o", "d", "e", "l", "s", "/", "m", "1">>}
    /\ ValuesOf(resp.pod, 2, MountPathVarName(N1)) = {<<"/", "m", "o", "d", "e", "l", "s", "/", "m", "1">>}

====
